---- MODULE Spec2Model ----
(***************************************************************************)
(* dotular: the module apply engine (internal/runner) and the snapshot /   *)
(* rollback manager (internal/snapshot), over a small file system with     *)
(* regular files, directories and symbolic links.                          *)
(***************************************************************************)
EXTENDS Integers, Sequences, FiniteSets, TLC

\* Longest module (number of items) the model applies.
MaxItems == 2

(***************************************************************************)
(* Paths.  A cleaned path is the sequence of its components; a path string *)
(* as written in the configuration also remembers a trailing "/".          *)
(***************************************************************************)
Home == <<"home">>

\* the directory os.MkdirTemp hands to snapshot.New
SnapDir == <<"tmp">>

\* strconv.Itoa on the backup keys the model reaches
Itoa(n) == <<"0", "1", "2", "3">>[n + 1]

\* filepath.Base of a cleaned path
Base(p) == IF p = <<>> THEN "." ELSE p[Len(p)]

\* filepath.Dir of a cleaned path
Dir(p) == IF Len(p) <= 1 THEN <<>> ELSE SubSeq(p, 1, Len(p) - 1)

\* filepath.Join(p, name)
Join(p, name) == IF name = "." THEN p ELSE Append(p, name)

\* filepath.Ext: the suffix starting at the last dot of the name
Ext(name) == IF name \in {"a.lua", "b.lua"} THEN ".lua" ELSE ""

\* a path string: components plus the trailing-slash flag; "" is NoPath
NoPath == [p |-> <<>>, slash |-> FALSE]

PathStr(p, slash) == [p |-> p, slash |-> slash]

\* platform.ExpandPath: "~/x" becomes filepath.Join(home, "x") (cleaned, so the
\* trailing slash goes); other strings pass through os.ExpandEnv unchanged.
ExpandPath(s) ==
    IF s.p # <<>> /\ s.p[1] = "~"
    THEN [p |-> Home \o Tail(s.p), slash |-> FALSE]
    ELSE s

IsPrefix(p, q) == Len(p) <= Len(q) /\ SubSeq(q, 1, Len(p)) = p

(***************************************************************************)
(* The file system: a node for every path of a finite universe.            *)
(***************************************************************************)
\* every path the model can name, in the lexical order filepath.WalkDir visits
PathSeq ==
    << <<"home">>,
       <<"home", "b.lua">>,
       <<"home", "b.lua", "a.lua">>,
       <<"home", "cfg">>,
       <<"home", "cfg", "a.lua">>,
       <<"home", "cfg", "nvim">>,
       <<"home", "cfg", "nvim", "init">>,
       <<"home", "nvim">>,
       <<"home", "nvim", "init">>,
       <<"home", "nvim", "nvim">>,
       <<"repo">>,
       <<"repo", "a.lua">>,
       <<"repo", "nvim">>,
       <<"repo", "nvim", "init">>,
       <<"tmp">>,
       <<"tmp", "0">>,
       <<"tmp", "0", "init">>,
       <<"tmp", "1">>,
       <<"tmp", "1", "init">>,
       <<"tmp", "2">>,
       <<"tmp", "2", "init">>,
       <<"tmp", "3">>,
       <<"tmp", "3", "init">> >>

Paths == {PathSeq[i] : i \in 1..Len(PathSeq)}

None == [k |-> "none", c |-> "", t |-> <<>>]
FileN(c) == [k |-> "file", c |-> c, t |-> <<>>]
DirN == [k |-> "dir", c |-> "", t |-> <<>>]
LinkN(t) == [k |-> "link", c |-> "", t |-> t]

NodeAt(fs, p) == IF p = <<>> THEN DirN ELSE IF p \in Paths THEN fs[p] ELSE None

Put(fs, p, n) == IF p \in Paths THEN [fs EXCEPT ![p] = n] ELSE fs

\* Path resolution as the kernel does it: every symbolic link on the way is
\* followed; the one at the last component only when follow is set.
\* st: "ok" | "noent" (ENOENT) | "notdir" (ENOTDIR); real: where the path
\* leads; creatable: only the last component is missing.
RECURSIVE ResolveFrom(_, _, _, _)
ResolveFrom(fs, cur, rest, follow) ==
    IF rest = <<>> THEN [st |-> "ok", real |-> cur, creatable |-> FALSE]
    ELSE LET curNode == NodeAt(fs, cur)
             nxt == Append(cur, Head(rest))
             n == NodeAt(fs, nxt)
             last == Len(rest) = 1
         IN  IF curNode.k = "none"
             THEN [st |-> "noent", real |-> cur \o rest, creatable |-> FALSE]
             ELSE IF curNode.k # "dir"
             THEN [st |-> "notdir", real |-> cur \o rest, creatable |-> FALSE]
             ELSE IF n.k = "none"
             THEN [st |-> "noent", real |-> nxt \o Tail(rest), creatable |-> last]
             ELSE IF n.k = "link" /\ (~last \/ follow)
             THEN ResolveFrom(fs, <<>>, n.t \o Tail(rest), follow)
             ELSE ResolveFrom(fs, nxt, Tail(rest), follow)

\* os.Stat
Stat(fs, p) == ResolveFrom(fs, <<>>, p, TRUE)

\* os.Lstat
Lstat(fs, p) == ResolveFrom(fs, <<>>, p, FALSE)

\* info.IsDir() of a successful os.Stat
IsDir(fs, p) == LET s == Stat(fs, p) IN s.st = "ok" /\ NodeAt(fs, s.real).k = "dir"

\* os.MkdirAll
RECURSIVE MkdirAll(_, _)
MkdirAll(fs, p) ==
    LET mkdir(par, l) ==
            IF ~par.ok THEN par
            ELSE IF l.st = "noent" /\ l.creatable /\ l.real \in Paths
            THEN [fs |-> Put(par.fs, l.real, DirN), ok |-> TRUE]
            ELSE [fs |-> par.fs, ok |-> FALSE]
        parent(par) == mkdir(par, Lstat(par.fs, p))
        all(s) ==
            IF s.st = "ok" THEN [fs |-> fs, ok |-> NodeAt(fs, s.real).k = "dir"]
            ELSE IF s.st = "notdir" \/ p = <<>> THEN [fs |-> fs, ok |-> FALSE]
            ELSE parent(MkdirAll(fs, Dir(p)))
    IN  all(Stat(fs, p))

\* os.RemoveAll: the node and everything below it; a missing path is fine,
\* and no caller looks at its error.
RemoveAll(fs, p) ==
    LET l == Lstat(fs, p)
    IN  IF l.st # "ok" \/ l.real = <<>> THEN fs
        ELSE [q \in Paths |-> IF IsPrefix(l.real, q) THEN None ELSE fs[q]]

\* os.Remove: a file, a link or an empty directory
Remove(fs, p) ==
    LET l == Lstat(fs, p)
    IN  IF l.st # "ok" THEN [fs |-> fs, ok |-> FALSE]
        ELSE IF \E q \in Paths : q # l.real /\ IsPrefix(l.real, q) /\ fs[q].k # "none"
        THEN [fs |-> fs, ok |-> FALSE]
        ELSE [fs |-> Put(fs, l.real, None), ok |-> TRUE]

\* os.Symlink(target, p)
Symlink(fs, target, p) ==
    LET l == Lstat(fs, p)
    IN  IF l.st = "noent" /\ l.creatable /\ l.real \in Paths
        THEN [fs |-> Put(fs, l.real, LinkN(target)), ok |-> TRUE]
        ELSE [fs |-> fs, ok |-> FALSE]

\* copyFile: os.Open(src), os.Create(dst), io.Copy.  os.Create follows a
\* symbolic link at dst and truncates before anything is read.
copyFile(fs, src, dst) ==
    LET copy(s, d) ==
            LET srcNode == NodeAt(fs, s.real)
                dstNode == NodeAt(fs, d.real)
                canCreate == \/ d.st = "ok" /\ dstNode.k = "file"
                             \/ d.st = "noent" /\ d.creatable /\ d.real \in Paths
            IN  IF s.st # "ok" THEN [fs |-> fs, ok |-> FALSE]
                ELSE IF ~canCreate THEN [fs |-> fs, ok |-> FALSE]
                ELSE IF srcNode.k # "file"
                THEN [fs |-> Put(fs, d.real, FileN("")), ok |-> FALSE]
                ELSE IF d.real = s.real THEN [fs |-> Put(fs, d.real, FileN("")), ok |-> TRUE]
                ELSE [fs |-> Put(fs, d.real, FileN(srcNode.c)), ok |-> TRUE]
    IN  copy(Stat(fs, src), Stat(fs, dst))

\* the entries filepath.WalkDir visits below (and including) the directory root
WalkEntries(fs, root) ==
    SelectSeq(PathSeq, LAMBDA q : IsPrefix(root, q) /\ fs[q].k # "none")

\* copyDir's callback over the remaining entries; the first error ends the walk
RECURSIVE copyEntries(_, _, _, _)
copyEntries(fs, entries, root, dst) ==
    IF entries = <<>> THEN [fs |-> fs, ok |-> TRUE]
    ELSE LET q == Head(entries)
             target == dst \o SubSeq(q, Len(root) + 1, Len(q))
             rest(res) == IF ~res.ok THEN res ELSE copyEntries(res.fs, Tail(entries), root, dst)
         IN  rest(IF fs[q].k = "dir" THEN MkdirAll(fs, target) ELSE copyFile(fs, q, target))

\* copyDir: filepath.WalkDir over src, mirroring it below dst
copyDir(fs, src, dst) ==
    LET l == Lstat(fs, src)
    IN  IF l.st # "ok" THEN [fs |-> fs, ok |-> FALSE]
        ELSE IF NodeAt(fs, l.real).k = "dir"
        THEN copyEntries(fs, WalkEntries(fs, l.real), l.real, dst)
        ELSE copyFile(fs, src, dst)

(***************************************************************************)
(* internal/snapshot                                                       *)
(***************************************************************************)
\* a nil *Snapshot
NoSnap == [active |-> FALSE, dir |-> <<>>, saved |-> <<>>, created |-> <<>>]

\* saved is the map destination -> backup, kept as the sequence of its
\* <<destination, backup>> pairs in insertion order; created is the list.
SavedKeys(s) == {s.saved[k][1] : k \in 1..Len(s.saved)}

CreatedSet(s) == {s.created[k] : k \in 1..Len(s.created)}

\* snapshot.New on a successful os.MkdirTemp
New(fs) ==
    [snap |-> [active |-> TRUE, dir |-> SnapDir, saved |-> <<>>, created |-> <<>>],
     fs |-> Put(fs, SnapDir, DirN)]

\* Record without its two early returns
RecordAlways(s, fs, path) ==
    LET tmpPath == Join(s.dir, Itoa(Len(s.saved)))
        backup(cp) ==
            IF ~cp.ok THEN [snap |-> s, fs |-> cp.fs, ok |-> FALSE]
            ELSE [snap |-> [s EXCEPT !.saved = Append(@, <<path, tmpPath>>)],
                  fs |-> cp.fs, ok |-> TRUE]
        record(st) ==
            IF st.st = "noent"
            THEN [snap |-> [s EXCEPT !.created = Append(@, path)], fs |-> fs, ok |-> TRUE]
            ELSE IF st.st # "ok" THEN [snap |-> s, fs |-> fs, ok |-> FALSE]
            ELSE backup(IF IsDir(fs, path) THEN copyDir(fs, path, tmpPath)
                        ELSE copyFile(fs, path, tmpPath))
    IN  record(Stat(fs, path))

\* Record that looks the path up in saved and not in created
RecordChecksSavedOnly(s, fs, path) ==
    LET tmpPath == Join(s.dir, Itoa(Len(s.saved)))
        backup(cp) ==
            IF ~cp.ok THEN [snap |-> s, fs |-> cp.fs, ok |-> FALSE]
            ELSE [snap |-> [s EXCEPT !.saved = Append(@, <<path, tmpPath>>)],
                  fs |-> cp.fs, ok |-> TRUE]
        record(st) ==
            IF path \in SavedKeys(s) THEN [snap |-> s, fs |-> fs, ok |-> TRUE]
            ELSE IF st.st = "noent"
            THEN [snap |-> [s EXCEPT !.created = Append(@, path)], fs |-> fs, ok |-> TRUE]
            ELSE IF st.st # "ok" THEN [snap |-> s, fs |-> fs, ok |-> FALSE]
            ELSE backup(IF IsDir(fs, path) THEN copyDir(fs, path, tmpPath)
                        ELSE copyFile(fs, path, tmpPath))
    IN  record(Stat(fs, path))

\* Record that lists the path before it knows the path could be saved
RecordListsFailed(s, fs, path) ==
    LET tmpPath == Join(s.dir, Itoa(Len(s.saved)))
        backup(cp) ==
            [snap |-> [s EXCEPT !.saved = Append(@, <<path, tmpPath>>)],
             fs |-> cp.fs, ok |-> cp.ok]
        record(st) ==
            IF path \in SavedKeys(s) THEN [snap |-> s, fs |-> fs, ok |-> TRUE]
            ELSE IF path \in CreatedSet(s) THEN [snap |-> s, fs |-> fs, ok |-> TRUE]
            ELSE IF st.st = "noent"
            THEN [snap |-> [s EXCEPT !.created = Append(@, path)], fs |-> fs, ok |-> TRUE]
            ELSE IF st.st # "ok"
            THEN [snap |-> [s EXCEPT !.created = Append(@, path)], fs |-> fs, ok |-> FALSE]
            ELSE backup(IF IsDir(fs, path) THEN copyDir(fs, path, tmpPath)
                        ELSE copyFile(fs, path, tmpPath))
    IN  record(Stat(fs, path))

\* Snapshot.Record
Record(s, fs, path) ==
    LET tmpPath == Join(s.dir, Itoa(Len(s.saved)))
        backup(cp) ==
            IF ~cp.ok THEN [snap |-> s, fs |-> cp.fs, ok |-> FALSE]
            ELSE [snap |-> [s EXCEPT !.saved = Append(@, <<path, tmpPath>>)],
                  fs |-> cp.fs, ok |-> TRUE]
        record(st) ==
            IF path \in SavedKeys(s) THEN [snap |-> s, fs |-> fs, ok |-> TRUE]
            ELSE IF path \in CreatedSet(s) THEN [snap |-> s, fs |-> fs, ok |-> TRUE]
            ELSE IF st.st = "noent"
            THEN [snap |-> [s EXCEPT !.created = Append(@, path)], fs |-> fs, ok |-> TRUE]
            ELSE IF st.st # "ok" THEN [snap |-> s, fs |-> fs, ok |-> FALSE]
            ELSE backup(IF IsDir(fs, path) THEN copyDir(fs, path, tmpPath)
                        ELSE copyFile(fs, path, tmpPath))
    IN  record(Stat(fs, path))

\* one iteration of Restore's loop over saved; bad are the paths on which
\* the operating system refuses the write or the removal (EACCES, ENOSPC, ...).
restoreOne(fs, dest, tmp, bad) ==
    LET restore(isDir) ==
            IF Stat(fs, tmp).st # "ok" THEN [fs |-> fs, ok |-> FALSE]
            ELSE IF dest \in bad
            THEN [fs |-> IF isDir THEN RemoveAll(fs, dest) ELSE fs, ok |-> FALSE]
            ELSE IF isDir THEN copyDir(RemoveAll(fs, dest), tmp, dest)
            ELSE copyFile(fs, tmp, dest)
    IN  restore(IsDir(fs, tmp))

\* Restore's first loop that returns at the first entry it cannot put back
RECURSIVE restoreSavedUntilError(_, _, _, _, _, _)
restoreSavedUntilError(s, fs, order, bad, first, tried) ==
    IF order = <<>> \/ first # <<>> THEN [fs |-> fs, first |-> first, tried |-> tried]
    ELSE LET e == s.saved[Head(order)]
             rest(res) == restoreSavedUntilError(s, res.fs, Tail(order), bad,
                              IF ~res.ok /\ first = <<>> THEN <<e[1]>> ELSE first,
                              Append(tried, [e |-> "restore_one", p |-> e[1], ok |-> res.ok]))
         IN  rest(restoreOne(fs, e[1], e[2], bad))

\* Restore's loop over saved; tried lists the entries it went through
RECURSIVE restoreSaved(_, _, _, _, _, _)
restoreSaved(s, fs, order, bad, first, tried) ==
    IF order = <<>> THEN [fs |-> fs, first |-> first, tried |-> tried]
    ELSE LET e == s.saved[Head(order)]
             rest(res) == restoreSaved(s, res.fs, Tail(order), bad,
                              IF ~res.ok /\ first = <<>> THEN <<e[1]>> ELSE first,
                              Append(tried, [e |-> "restore_one", p |-> e[1], ok |-> res.ok]))
         IN  rest(restoreOne(fs, e[1], e[2], bad))

\* Restore's loop over created: os.RemoveAll, its error dropped
RECURSIVE removeCreated(_, _, _, _)
removeCreated(fs, created, bad, tried) ==
    IF created = <<>> THEN [fs |-> fs, tried |-> tried]
    ELSE LET p == Head(created)
         IN  removeCreated(IF p \in bad THEN fs ELSE RemoveAll(fs, p), Tail(created), bad,
                           Append(tried, [e |-> "remove", p |-> p, ok |-> p \notin bad]))

\* Restore that puts the saved paths back and leaves the created ones
RestoreSavedOnly(s, fs, order, bad) == restoreSaved(s, fs, order, bad, <<>>, <<>>)

\* Snapshot.Restore.  order is the order in which Go's map iteration yields
\* the saved entries.  first is <<>> for nil, else <<dest>> of the first error.
Restore(s, fs, order, bad) ==
    LET created(res, rm) == [fs |-> rm.fs, first |-> res.first, tried |-> rm.tried]
        saved(res) == created(res, removeCreated(res.fs, s.created, bad, res.tried))
    IN  saved(restoreSaved(s, fs, order, bad, <<>>, <<>>))

\* Snapshot.Discard
Discard(s, fs) == RemoveAll(fs, s.dir)

\* the orders a map of n entries can be iterated in
Orders(n) == {o \in [1..n -> 1..n] : \A a, b \in 1..n : a # b => o[a] # o[b]}

(***************************************************************************)
(* internal/config, internal/platform                                      *)
(***************************************************************************)
\* a PlatformMap given in the scalar YAML form: one value for every OS
AllOS(v) == [MacOS |-> v, Windows |-> v, Linux |-> v]

NoHooks == [BeforeApply |-> "", AfterApply |-> "", BeforeSync |-> "", AfterSync |-> ""]

AllHooks == [BeforeApply |-> "sh", AfterApply |-> "sh", BeforeSync |-> "sh", AfterSync |-> "sh"]

\* the zero config.Item (Permissions and Encrypted stay unset in the model)
BlankItem ==
    [Package |-> "", Script |-> "", Setting |-> "", File |-> <<>>, Directory |-> <<>>,
     Binary |-> "", Run |-> "", Via |-> "", Destination |-> AllOS(NoPath),
     Source |-> AllOS(NoPath), Direction |-> "", Link |-> FALSE,
     SkipIf |-> "", Verify |-> "", Hooks |-> NoHooks]

\* Item.Type
Type(i) ==
    IF i.Package # "" THEN "package"
    ELSE IF i.Script # "" THEN "script"
    ELSE IF i.Setting # "" THEN "setting"
    ELSE IF i.File # <<>> THEN "file"
    ELSE IF i.Directory # <<>> THEN "directory"
    ELSE IF i.Binary # "" THEN "binary"
    ELSE IF i.Run # "" THEN "run"
    ELSE "unknown"

\* Item.EffectiveDirection
EffectiveDirection(i) == IF i.Direction \in {"pull", "sync"} THEN i.Direction ELSE "push"

\* PlatformMap.ForOS
ForOS(pm, goos) ==
    IF goos = "darwin" THEN pm.MacOS
    ELSE IF goos = "windows" THEN pm.Windows
    ELSE IF goos = "linux" THEN pm.Linux
    ELSE NoPath

\* platform.PackageManagerOS
PackageManagerOS(manager) ==
    IF manager \in {"brew", "brew-cask", "mas"} THEN "darwin"
    ELSE IF manager \in {"winget", "choco", "scoop"} THEN "windows"
    ELSE IF manager \in {"apt", "apt-get", "dnf", "yum", "pacman", "snap"} THEN "linux"
    ELSE ""

(***************************************************************************)
(* internal/actions                                                        *)
(***************************************************************************)
NoAction ==
    [kind |-> "nil", Manager |-> "", Source |-> <<>>, Destination |-> NoPath,
     Direction |-> "", Link |-> FALSE]

\* FileAction.ResolvedTarget
FileResolvedTarget(a) ==
    LET expanded == ExpandPath(a.Destination)
        base == Base(expanded.p)
    IN  IF ~a.Destination.slash /\ Ext(base) # "" THEN expanded.p
        ELSE Join(expanded.p, Base(a.Source))

\* DirectoryAction.ResolvedTarget
DirResolvedTarget(a) ==
    LET expanded == ExpandPath(a.Destination)
        base == Base(expanded.p)
        srcBase == Base(a.Source)
    IN  IF base = srcBase THEN expanded.p
        ELSE IF a.Destination.slash THEN Join(expanded.p, srcBase)
        ELSE Join(expanded.p, srcBase)

ResolvedTarget(a) == IF a.kind = "directory" THEN DirResolvedTarget(a) ELSE FileResolvedTarget(a)

\* installArgs: the managers it knows
KnownManagers ==
    {"brew", "brew-cask", "mas", "winget", "choco", "scoop", "apt", "apt-get",
     "dnf", "yum", "pacman", "snap", "flatpak", "nix"}

\* checkArgs: the managers that have an installed-check
CheckedManagers == KnownManagers \ {"nix"}

\* the actions that have an IsApplied method (actions.Idempotent)
ImplementsIdempotent(a) == a.kind \in {"package", "file", "directory"}

\* createSymlink
createSymlink(fs, src, dst) ==
    LET link(rm) == IF ~rm.ok THEN rm ELSE Symlink(rm.fs, src, dst)
    IN  IF Lstat(fs, dst).st = "ok" THEN link(Remove(fs, dst))
        ELSE Symlink(fs, src, dst)

\* createDirSymlink
createDirSymlink(fs, src, dst) ==
    LET link(rm) == IF ~rm.ok THEN rm ELSE Symlink(rm.fs, src, dst)
        relink(l) ==
            IF l.st = "ok"
            THEN IF NodeAt(fs, l.real).k = "link" THEN link(Remove(fs, dst))
                 ELSE [fs |-> fs, ok |-> FALSE]
            ELSE Symlink(fs, src, dst)
    IN  relink(Lstat(fs, dst))

\* FileAction.IsApplied / DirectoryAction.IsApplied: os.Readlink(target) == abs
LinkIsApplied(a, fs) ==
    LET l == Lstat(fs, ResolvedTarget(a))
    IN  a.Link /\ l.st = "ok" /\ NodeAt(fs, l.real).k = "link" /\ NodeAt(fs, l.real).t = a.Source

\* IsApplied of the Idempotent actions; installed is what the package
\* manager's check command reports.  No implementation returns an error.
IsApplied(a, fs, installed) ==
    IF a.kind = "package" THEN a.Manager \in CheckedManagers /\ installed
    ELSE LinkIsApplied(a, fs)

\* FileAction.runPush
runPush(a, fs, destDir, target) ==
    LET push(mk) == IF ~mk.ok THEN mk ELSE copyFile(mk.fs, a.Source, target)
    IN  push(MkdirAll(fs, destDir))

\* FileAction.runPull
runPull(a, fs, target) ==
    LET pull(mk) == IF ~mk.ok THEN mk ELSE copyFile(mk.fs, target, a.Source)
    IN  IF Stat(fs, target).st = "noent" THEN [fs |-> fs, ok |-> FALSE]
        ELSE pull(MkdirAll(fs, Dir(a.Source)))

\* fileExists
fileExists(fs, p) == Stat(fs, p).st = "ok"

\* os.ReadFile succeeds on a regular file
Readable(fs, p) == LET s == Stat(fs, p) IN s.st = "ok" /\ NodeAt(fs, s.real).k = "file"

Content(fs, p) == NodeAt(fs, Stat(fs, p).real).c

\* FileAction.resolveConflict; choice is the line read from stdin
resolveConflict(a, fs, repoPath, sysPath, choice) ==
    IF choice = "1" THEN copyFile(fs, repoPath, sysPath)
    ELSE IF choice = "2" THEN copyFile(fs, sysPath, a.Source)
    ELSE [fs |-> fs, ok |-> TRUE]

\* FileAction.runSync
runSync(a, fs, target, choice) ==
    LET repoPath == a.Source
        toSys(mk) == IF ~mk.ok THEN mk ELSE copyFile(mk.fs, repoPath, target)
        toRepo(mk) == IF ~mk.ok THEN mk ELSE copyFile(mk.fs, target, a.Source)
        sync(repoExists, sysExists) ==
            IF ~repoExists /\ ~sysExists THEN [fs |-> fs, ok |-> FALSE]
            ELSE IF repoExists /\ ~sysExists THEN toSys(MkdirAll(fs, Dir(target)))
            ELSE IF ~repoExists /\ sysExists THEN toRepo(MkdirAll(fs, Dir(a.Source)))
            ELSE IF ~(Readable(fs, repoPath) /\ Readable(fs, target))
            THEN [fs |-> fs, ok |-> FALSE]
            ELSE IF Content(fs, repoPath) = Content(fs, target) THEN [fs |-> fs, ok |-> TRUE]
            ELSE resolveConflict(a, fs, repoPath, target, choice)
    IN  sync(fileExists(fs, repoPath), fileExists(fs, target))

\* FileAction.Run outside dry-run
FileRun(a, fs, choice) ==
    LET link(mk, target) == IF ~mk.ok THEN mk ELSE createSymlink(mk.fs, a.Source, target)
        run(target, dest) ==
            IF a.Link THEN link(MkdirAll(fs, dest), target)
            ELSE IF a.Direction = "pull" THEN runPull(a, fs, target)
            ELSE IF a.Direction = "sync" THEN runSync(a, fs, target, choice)
            ELSE runPush(a, fs, dest, target)
    IN  run(ResolvedTarget(a), Dir(ResolvedTarget(a)))

\* DirectoryAction.Run outside dry-run
DirRun(a, fs) ==
    LET link(mk, target) == IF ~mk.ok THEN mk ELSE createDirSymlink(mk.fs, a.Source, target)
        sync(target, repoExists, sysExists) ==
            IF ~repoExists /\ ~sysExists THEN [fs |-> fs, ok |-> FALSE]
            ELSE IF repoExists /\ ~sysExists THEN copyDir(fs, a.Source, target)
            ELSE IF ~repoExists /\ sysExists THEN copyDir(fs, target, a.Source)
            ELSE copyDir(fs, a.Source, target)
        run(target) ==
            IF a.Link THEN link(MkdirAll(fs, Dir(target)), target)
            ELSE IF a.Direction = "pull" THEN copyDir(fs, target, a.Source)
            ELSE IF a.Direction = "sync"
            THEN sync(target, IsDir(fs, a.Source), IsDir(fs, target))
            ELSE copyDir(fs, a.Source, target)
    IN  run(ResolvedTarget(a))

\* Action.Run.  cmdOK is the exit status of the external command the action
\* starts (installer, script, download, defaults write); goos is runtime.GOOS.
Run(a, fs, dryRun, cmdOK, choice, goos) ==
    IF a.kind = "package"
    THEN [fs |-> fs, ok |-> a.Manager \in KnownManagers /\ (dryRun \/ cmdOK)]
    ELSE IF dryRun THEN [fs |-> fs, ok |-> TRUE]
    ELSE IF a.kind = "file" THEN FileRun(a, fs, choice)
    ELSE IF a.kind = "directory" THEN DirRun(a, fs)
    ELSE IF a.kind = "setting" THEN [fs |-> fs, ok |-> goos = "darwin" /\ cmdOK]
    ELSE [fs |-> fs, ok |-> cmdOK]

(***************************************************************************)
(* internal/runner                                                         *)
(***************************************************************************)
\* an entry of the observation log: what was called, for which item (0 is
\* the module itself), with which argument, path and outcome
Ev(e, i, a, p, ok) == [e |-> e, i |-> i, a |-> a, p |-> p, ok |-> ok, mode |-> ""]

\* the entry of one r.runHook call
HookEv(i, name, h) == [Ev("hook", i, name, <<>>, h.ok) EXCEPT !.mode = h.mode]

\* an error value: its kind, and whether its message carries the module name
NoErr == [kind |-> "", named |-> FALSE]

Err(kind) == [kind |-> kind, named |-> TRUE]

\* Runner.fileDirection
fileDirection(r, item) ==
    IF r.DirectionOverride # "" /\ ~item.Link THEN r.DirectionOverride
    ELSE EffectiveDirection(item)

\* skipManager that skips every manager not bound to this OS
skipManagerUnbound(r, manager) == PackageManagerOS(manager) # r.OS

\* Runner.skipManager
skipManager(r, manager) ==
    LET targetOS == PackageManagerOS(manager)
    IN  targetOS # "" /\ targetOS # r.OS

\* Runner.buildAction
buildAction(r, item) ==
    LET t == Type(item)
        dest == ForOS(item.Destination, r.OS)
        skipped == [action |-> NoAction, skip |-> TRUE, err |-> FALSE]
        built(a) == [action |-> a, skip |-> FALSE, err |-> FALSE]
    IN  IF t = "package"
        THEN IF skipManager(r, item.Via) THEN skipped
             ELSE built([NoAction EXCEPT !.kind = "package", !.Manager = item.Via])
        ELSE IF t = "script" THEN built([NoAction EXCEPT !.kind = "script"])
        ELSE IF t = "file"
        THEN IF dest = NoPath THEN skipped
             ELSE built([NoAction EXCEPT !.kind = "file", !.Source = item.File,
                                         !.Destination = dest,
                                         !.Direction = fileDirection(r, item),
                                         !.Link = item.Link])
        ELSE IF t = "directory"
        THEN IF dest = NoPath THEN skipped
             ELSE built([NoAction EXCEPT !.kind = "directory", !.Source = item.Directory,
                                         !.Destination = dest,
                                         !.Direction = fileDirection(r, item),
                                         !.Link = item.Link])
        ELSE IF t = "binary"
        THEN IF ForOS(item.Source, r.OS) = NoPath THEN skipped
             ELSE built([NoAction EXCEPT !.kind = "binary"])
        ELSE IF t = "run" THEN built([NoAction EXCEPT !.kind = "run"])
        ELSE IF t = "setting" THEN built([NoAction EXCEPT !.kind = "setting"])
        ELSE [action |-> NoAction, skip |-> FALSE, err |-> TRUE]

\* runHook that executes the command in dry-run too
runHookInDryRun(r, cmd, exitOK) ==
    IF cmd = "" THEN [ok |-> TRUE, mode |-> "none"]
    ELSE [ok |-> exitOK, mode |-> "run"]

\* Runner.runHook.  exitOK is the exit status shell.Run would see.
\* mode: "none" (no command declared), "dry" (printed only), "run" (executed)
runHook(r, cmd, exitOK) ==
    IF cmd = "" THEN [ok |-> TRUE, mode |-> "none"]
    ELSE IF r.DryRun THEN [ok |-> TRUE, mode |-> "dry"]
    ELSE [ok |-> exitOK, mode |-> "run"]

\* The environment of one applyItem call:
\*   skipIf     what shell.Eval sees: "zero", "nonzero", or "error"
\*   fail       the subprocess that exits non-zero ("none": all exit zero);
\*              the first failure ends applyItem, so one name is enough
\*   installed  the answer of the package manager's check command
\*   choice     the line typed at a sync conflict prompt
\* Only the subprocesses the item can start have an outcome to choose.
Envs(r, item) ==
    LET hooks == item.Hooks
        sync == Type(item) \in {"file", "directory"} /\ fileDirection(r, item) = "sync"
        live == ~r.DryRun
    IN  [skipIf : IF item.SkipIf = "" THEN {"nonzero"} ELSE {"zero", "nonzero", "error"},
         fail : {"none"}
                \cup (IF live /\ hooks.BeforeApply # "" THEN {"before_apply"} ELSE {})
                \cup (IF live /\ sync /\ hooks.BeforeSync # "" THEN {"before_sync"} ELSE {})
                \cup (IF live /\ Type(item) \notin {"file", "directory"} THEN {"run"} ELSE {})
                \cup (IF live /\ item.Verify # "" THEN {"verify"} ELSE {})
                \cup (IF live /\ sync /\ hooks.AfterSync # "" THEN {"after_sync"} ELSE {})
                \cup (IF live /\ hooks.AfterApply # "" THEN {"after_apply"} ELSE {}),
         installed : IF Type(item) = "package" /\ item.Via \in CheckedManagers
                     THEN BOOLEAN ELSE {FALSE},
         choice : IF Type(item) = "file" /\ sync /\ live THEN {"1", "2", "s"} ELSE {"s"},
         audit : {TRUE}]

\* The sections of applyItem that wait for something outside the process, in
\* the order applyItem reaches them.
StepSeq ==
    <<"skip_if", "isapplied", "before_apply", "before_sync", "run", "verify",
      "after_sync", "after_apply">>

Pos(step) == CHOOSE k \in 1..Len(StepSeq) : StepSeq[k] = step

\* The exit statuses shell.Run can see for a subprocess started under ctx:
\* exec.Cmd.Start returns ctx.Err() once the context is done.
ExitsUnder(c) == IF c = "cancelled" THEN {FALSE} ELSE BOOLEAN

\* The environments of an applyItem call whose context becomes done at the
\* section named at, having been live before.  Every subprocess started
\* afterwards fails in Start: shell.Run and the Run of an action that starts
\* a command return an error, shell.Eval returns (false, err), PackageAction's
\* IsApplied returns (false, nil).  inflight says that the skip_if command was
\* already running: it is killed, cmd.Run returns an *exec.ExitError, and
\* shell.Eval returns (false, nil).  FileAction.Run and DirectoryAction.Run
\* never look at ctx.
CancelledEnvs(r, item, at, inflight) ==
    {env \in Envs(r, item) :
        LET later == {e.fail : e \in Envs(r, item)} \cap {StepSeq[k] : k \in Pos(at)..Len(StepSeq)}
        IN  /\ item.SkipIf # "" =>
                env.skipIf = IF at # "skip_if" \/ inflight THEN "nonzero" ELSE "error"
            /\ at \in {"skip_if", "isapplied"} => ~env.installed
            /\ IF later = {} THEN env.fail = "none"
               ELSE /\ env.fail \in later
                    /\ \A s \in later : Pos(env.fail) <= Pos(s)}

\* the environments of an applyItem call entered under ctx
EnvsUnder(c, r, item) ==
    IF c = "cancelled" THEN CancelledEnvs(r, item, "skip_if", FALSE) ELSE Envs(r, item)

\* state threaded through the sections of applyItem
Stop(st, err, evs) == [st EXCEPT !.done = TRUE, !.err = err, !.ev = @ \o evs]

Go(st, evs) == [st EXCEPT !.ev = @ \o evs]

isSync(c) ==
    Type(c.item) \in {"file", "directory"} /\ fileDirection(c.r, c.item) = "sync"

\* one call of r.runHook from applyItem, with its error wrapping
itemHook(c, st, cmd, name) ==
    LET h == runHook(c.r, cmd, c.env.fail # name)
        ev == <<HookEv(c.i, name, h)>>
    IN  IF st.done THEN st
        ELSE IF ~h.ok THEN Stop(st, Err("hook"), ev)
        ELSE Go(st, ev)

\* itemSkipIf that logs the skip but falls through to the rest of applyItem
itemSkipIfFallsThrough(c, st) ==
    LET ev == <<Ev("eval", c.i, c.env.skipIf, <<>>, c.env.skipIf # "error")>>
        audit == <<Ev("audit", c.i, "skipped", <<>>, c.env.audit)>>
    IN  IF st.done \/ c.item.SkipIf = "" THEN st
        ELSE IF c.env.skipIf = "error" THEN Stop(st, Err("skip_if"), ev)
        ELSE IF c.env.skipIf = "zero" THEN Go(st, ev \o audit)
        ELSE Go(st, ev)

\* applyItem: --- skip_if ---
itemSkipIf(c, st) ==
    LET ev == <<Ev("eval", c.i, c.env.skipIf, <<>>, c.env.skipIf # "error")>>
        audit == <<Ev("audit", c.i, "skipped", <<>>, c.env.audit)>>
    IN  IF st.done \/ c.item.SkipIf = "" THEN st
        ELSE IF c.env.skipIf = "error" THEN Stop(st, Err("skip_if"), ev)
        ELSE IF c.env.skipIf = "zero" THEN Stop(st, NoErr, ev \o audit)
        ELSE Go(st, ev)

\* itemIdempotency that skips an applied item without an audit entry
itemIdempotencySilent(c, st) ==
    LET applied == IsApplied(c.action, st.fs, c.env.installed)
        ev == <<Ev("isapplied", c.i, "", <<>>, applied)>>
    IN  IF st.done \/ ~ImplementsIdempotent(c.action) THEN st
        ELSE IF applied THEN Stop(st, NoErr, ev)
        ELSE Go(st, ev)

\* itemIdempotency that queries IsApplied but never returns early
itemIdempotencyIgnored(c, st) ==
    LET applied == IsApplied(c.action, st.fs, c.env.installed)
        ev == <<Ev("isapplied", c.i, "", <<>>, applied)>>
    IN  IF st.done \/ ~ImplementsIdempotent(c.action) THEN st
        ELSE Go(st, ev)

\* applyItem: --- auto-idempotency ---
itemIdempotency(c, st) ==
    LET applied == IsApplied(c.action, st.fs, c.env.installed)
        ev == <<Ev("isapplied", c.i, "", <<>>, applied)>>
        audit == <<Ev("audit", c.i, "skipped", <<>>, c.env.audit)>>
    IN  IF st.done \/ ~ImplementsIdempotent(c.action) THEN st
        ELSE IF applied THEN Stop(st, NoErr, ev \o audit)
        ELSE Go(st, ev)

\* applyItem: --- item hooks: before ---
itemBeforeHooks(c, st) ==
    LET st1 == itemHook(c, st, c.item.Hooks.BeforeApply, "before_apply")
    IN  IF isSync(c) THEN itemHook(c, st1, c.item.Hooks.BeforeSync, "before_sync")
        ELSE st1

\* the path applyItem hands to snap.Record
destPath(r, item) ==
    LET dest == ForOS(item.Destination, r.OS)
        srcName == IF Type(item) = "directory" THEN item.Directory ELSE item.File
    IN  Join(ExpandPath(dest).p, Base(srcName))

\* itemSnapshot that goes on to Run when Record returned an error
itemSnapshotIgnoresError(c, st) ==
    LET dest == ForOS(c.item.Destination, c.r.OS)
        srcName == IF Type(c.item) = "directory" THEN c.item.Directory ELSE c.item.File
        recorded(path, rec) ==
            Go([st EXCEPT !.snap = rec.snap, !.fs = rec.fs],
               <<Ev("record", c.i, "", path, rec.ok)>>)
        record(path) == recorded(path, Record(st.snap, st.fs, path))
    IN  IF st.done THEN st
        ELSE IF st.snap.active /\ Type(c.item) \in {"file", "directory"}
                /\ dest # NoPath /\ srcName # <<>>
        THEN record(destPath(c.r, c.item))
        ELSE st

\* applyItem: --- snapshot destination before modification ---
itemSnapshot(c, st) ==
    LET dest == ForOS(c.item.Destination, c.r.OS)
        srcName == IF Type(c.item) = "directory" THEN c.item.Directory ELSE c.item.File
        recorded(path, rec) ==
            IF ~rec.ok
            THEN Stop([st EXCEPT !.snap = rec.snap, !.fs = rec.fs], Err("snapshot"),
                      <<Ev("record", c.i, "", path, FALSE)>>)
            ELSE Go([st EXCEPT !.snap = rec.snap, !.fs = rec.fs],
                    <<Ev("record", c.i, "", path, TRUE)>>)
        record(path) == recorded(path, Record(st.snap, st.fs, path))
    IN  IF st.done THEN st
        ELSE IF st.snap.active /\ Type(c.item) \in {"file", "directory"}
                /\ dest # NoPath /\ srcName # <<>>
        THEN record(destPath(c.r, c.item))
        ELSE st

\* itemRun that writes the audit entry only when Run succeeded
itemRunAuditsSuccessOnly(c, st) ==
    LET ran(run) ==
            IF ~run.ok
            THEN Stop([st EXCEPT !.fs = run.fs], Err("run"),
                      <<Ev("run", c.i, IF c.r.DryRun THEN "dry" ELSE "real", <<>>, FALSE)>>)
            ELSE Go([st EXCEPT !.fs = run.fs],
                    <<Ev("run", c.i, IF c.r.DryRun THEN "dry" ELSE "real", <<>>, TRUE),
                      Ev("audit", c.i, "success", <<>>, c.env.audit)>>)
    IN  IF st.done THEN st
        ELSE ran(Run(c.action, st.fs, c.r.DryRun, c.env.fail # "run", c.env.choice, c.r.OS))

\* itemRun that returns an error when the audit entry could not be written
itemRunFailsOnAudit(c, st) ==
    LET ran(run) ==
            LET ev == <<Ev("run", c.i, IF c.r.DryRun THEN "dry" ELSE "real", <<>>, run.ok),
                        Ev("audit", c.i, IF run.ok THEN "success" ELSE "failure", <<>>,
                           c.env.audit)>>
            IN  IF ~run.ok \/ ~c.env.audit THEN Stop([st EXCEPT !.fs = run.fs], Err("run"), ev)
                ELSE Go([st EXCEPT !.fs = run.fs], ev)
    IN  IF st.done THEN st
        ELSE ran(Run(c.action, st.fs, c.r.DryRun, c.env.fail # "run", c.env.choice, c.r.OS))

\* applyItem: --- run ---
itemRun(c, st) ==
    LET ran(run) ==
            LET ev == <<Ev("run", c.i, IF c.r.DryRun THEN "dry" ELSE "real", <<>>, run.ok),
                        Ev("audit", c.i, IF run.ok THEN "success" ELSE "failure", <<>>,
                           c.env.audit)>>
            IN  IF ~run.ok THEN Stop([st EXCEPT !.fs = run.fs], Err("run"), ev)
                ELSE Go([st EXCEPT !.fs = run.fs], ev)
    IN  IF st.done THEN st
        ELSE ran(Run(c.action, st.fs, c.r.DryRun, c.env.fail # "run", c.env.choice, c.r.OS))

\* itemVerify that runs the command but ignores its exit status
itemVerifyIgnored(c, st) ==
    LET ok == c.env.fail # "verify"
        ev == <<Ev("verify", c.i, "", <<>>, ok)>>
    IN  IF st.done THEN st
        ELSE IF c.item.Verify # "" /\ ~c.r.DryRun THEN Go(st, ev)
        ELSE st

\* applyItem: --- verify ---
itemVerify(c, st) ==
    LET ok == c.env.fail # "verify"
        ev == <<Ev("verify", c.i, "", <<>>, ok)>>
    IN  IF st.done THEN st
        ELSE IF c.item.Verify # "" /\ ~c.r.DryRun
        THEN IF ~ok THEN Stop(st, Err("verify"), ev) ELSE Go(st, ev)
        ELSE st

\* applyItem: --- item hooks: after ---
itemAfterHooks(c, st) ==
    LET st1 == IF isSync(c) THEN itemHook(c, st, c.item.Hooks.AfterSync, "after_sync") ELSE st
    IN  itemHook(c, st1, c.item.Hooks.AfterApply, "after_apply")

\* applyItem that records the destination only after the action has run
applyItemRecordsAfterRun(r, item, i, snap, fs, env) ==
    LET b == buildAction(r, item)
        c == [r |-> r, item |-> item, i |-> i, action |-> b.action, env |-> env]
        st0 == [done |-> FALSE, err |-> NoErr, snap |-> snap, fs |-> fs,
                ev |-> <<Ev("build", i, "", <<>>, ~b.err)>>]
    IN  IF b.err THEN Stop(st0, Err("build"), <<>>)
        ELSE IF b.skip THEN Stop(st0, NoErr, <<>>)
        ELSE itemAfterHooks(c,
               itemVerify(c,
                 itemSnapshot(c,
                   itemRun(c,
                     itemBeforeHooks(c,
                       itemIdempotency(c,
                         itemSkipIf(c, st0)))))))

\* Runner.applyItem
applyItem(r, item, i, snap, fs, env) ==
    LET b == buildAction(r, item)
        c == [r |-> r, item |-> item, i |-> i, action |-> b.action, env |-> env]
        st0 == [done |-> FALSE, err |-> NoErr, snap |-> snap, fs |-> fs,
                ev |-> <<Ev("build", i, "", <<>>, ~b.err)>>]
    IN  IF b.err THEN Stop(st0, Err("build"), <<>>)
        ELSE IF b.skip THEN Stop(st0, NoErr, <<>>)
        ELSE itemAfterHooks(c,
               itemVerify(c,
                 itemRun(c,
                   itemSnapshot(c,
                     itemBeforeHooks(c,
                       itemIdempotency(c,
                         itemSkipIf(c, st0)))))))

\* hasSyncItem that looks at file items only
hasSyncItemFilesOnly(r, m) ==
    \E k \in 1..Len(m.Items) :
        Type(m.Items[k]) = "file" /\ fileDirection(r, m.Items[k]) = "sync"

\* applyItems: the scan for a sync item
hasSyncItem(r, m) ==
    \E k \in 1..Len(m.Items) :
        Type(m.Items[k]) \in {"file", "directory"} /\ fileDirection(r, m.Items[k]) = "sync"

\* beforeApply that goes on after a failed hook
beforeApplyContinues(r, m, exitOK) ==
    LET h == runHook(r, m.Hooks.BeforeApply, exitOK)
    IN  [ev |-> <<HookEv(0, "before_apply", h)>>,
         pc |-> "snapshot",
         result |-> NoErr]

\* ApplyModule: the module-level before_apply hook
beforeApply(r, m, exitOK) ==
    LET h == runHook(r, m.Hooks.BeforeApply, exitOK)
    IN  [ev |-> <<HookEv(0, "before_apply", h)>>,
         pc |-> IF h.ok THEN "snapshot" ELSE "done",
         result |-> IF h.ok THEN NoErr ELSE Err("hook")]

\* newSnapshot that creates a snapshot in dry-run too
newSnapshotInDryRun(r, fs, mkOK) ==
    LET n == New(fs)
    IN  IF r.Atomic
        THEN IF mkOK
             THEN [snap |-> n.snap, fs |-> n.fs, ev |-> <<Ev("new", 0, "", <<>>, TRUE)>>,
                   pc |-> "before_sync", result |-> NoErr]
             ELSE [snap |-> NoSnap, fs |-> fs, ev |-> <<Ev("new", 0, "", <<>>, FALSE)>>,
                   pc |-> "done", result |-> Err("create snapshot")]
        ELSE [snap |-> NoSnap, fs |-> fs, ev |-> <<>>, pc |-> "before_sync", result |-> NoErr]

\* ApplyModule: snapshot.New when atomic and not dry-run; mkOK is whether
\* os.MkdirTemp succeeds
newSnapshot(r, fs, mkOK) ==
    LET n == New(fs)
    IN  IF r.Atomic /\ ~r.DryRun
        THEN IF mkOK
             THEN [snap |-> n.snap, fs |-> n.fs, ev |-> <<Ev("new", 0, "", <<>>, TRUE)>>,
                   pc |-> "before_sync", result |-> NoErr]
             ELSE [snap |-> NoSnap, fs |-> fs, ev |-> <<Ev("new", 0, "", <<>>, FALSE)>>,
                   pc |-> "done", result |-> Err("create snapshot")]
        ELSE [snap |-> NoSnap, fs |-> fs, ev |-> <<>>, pc |-> "before_sync", result |-> NoErr]

\* applyItems: the module-level before_sync hook
beforeSync(r, m, exitOK) ==
    LET h == runHook(r, m.Hooks.BeforeSync, exitOK)
    IN  IF hasSyncItem(r, m)
        THEN [ev |-> <<HookEv(0, "before_sync", h)>>,
              pc |-> IF ~h.ok THEN "finish" ELSE IF m.Items = <<>> THEN "after_sync" ELSE "items",
              applyErr |-> IF h.ok THEN NoErr ELSE Err("hook")]
        ELSE [ev |-> <<>>, pc |-> IF m.Items = <<>> THEN "after_sync" ELSE "items",
              applyErr |-> NoErr]

\* afterItem that goes on to the next item after an error
afterItemContinues(m, i, err) ==
    IF i = Len(m.Items) THEN (IF err # NoErr THEN "finish" ELSE "after_sync") ELSE "items"

\* applyItems: where the loop goes after item i returned err
afterItem(m, i, err) ==
    IF err # NoErr THEN "finish" ELSE IF i = Len(m.Items) THEN "after_sync" ELSE "items"

\* applyItems: the module-level after_sync hook
afterSync(r, m, exitOK) ==
    LET h == runHook(r, m.Hooks.AfterSync, exitOK)
    IN  IF hasSyncItem(r, m)
        THEN [ev |-> <<HookEv(0, "after_sync", h)>>,
              applyErr |-> IF h.ok THEN NoErr ELSE Err("hook")]
        ELSE [ev |-> <<>>, applyErr |-> NoErr]

\* finish that returns from the rollback branch without Discard
finishLeaksOnRollback(s, fs, applyErr, order, bad) ==
    LET rollback(rs) ==
            [fs |-> rs.fs,
             ev |-> <<Ev("restore", 0, "", rs.first, rs.first = <<>>)>>,
             pc |-> "done", result |-> applyErr]
    IN  IF applyErr # NoErr /\ s.active THEN rollback(Restore(s, fs, order, bad))
        ELSE [fs |-> IF s.active THEN Discard(s, fs) ELSE fs,
              ev |-> IF s.active THEN <<Ev("discard", 0, "", <<>>, TRUE)>> ELSE <<>>,
              pc |-> IF applyErr # NoErr THEN "done" ELSE "after_apply",
              result |-> applyErr]

\* finish that returns the restore error when Restore fails
finishReturnsRestoreErr(s, fs, applyErr, order, bad) ==
    LET rollback(rs) ==
            [fs |-> Discard(s, rs.fs),
             ev |-> <<Ev("restore", 0, "", rs.first, rs.first = <<>>),
                      Ev("discard", 0, "", <<>>, TRUE)>>,
             pc |-> "done",
             result |-> IF rs.first # <<>> THEN Err("restore") ELSE applyErr]
    IN  IF applyErr # NoErr /\ s.active THEN rollback(Restore(s, fs, order, bad))
        ELSE [fs |-> IF s.active THEN Discard(s, fs) ELSE fs,
              ev |-> IF s.active THEN <<Ev("discard", 0, "", <<>>, TRUE)>> ELSE <<>>,
              pc |-> IF applyErr # NoErr THEN "done" ELSE "after_apply",
              result |-> applyErr]

\* ApplyModule after applyItems returned: rollback, discard, return
\* finish that rolls back whenever a snapshot exists, applyItems failed or not
finishRestoresAlways(s, fs, applyErr, order, bad) ==
    LET rollback(rs) ==
            [fs |-> Discard(s, rs.fs),
             ev |-> <<Ev("restore", 0, "", rs.first, rs.first = <<>>),
                      Ev("discard", 0, "", <<>>, TRUE)>>,
             pc |-> IF applyErr # NoErr THEN "done" ELSE "after_apply",
             result |-> applyErr]
    IN  IF s.active THEN rollback(Restore(s, fs, order, bad))
        ELSE [fs |-> fs, ev |-> <<>>,
              pc |-> IF applyErr # NoErr THEN "done" ELSE "after_apply",
              result |-> applyErr]

\* finish that leaves the snapshot in place when the items succeeded
finishDefersDiscard(s, fs, applyErr, order, bad) ==
    LET rollback(rs) ==
            [fs |-> Discard(s, rs.fs),
             ev |-> <<Ev("restore", 0, "", rs.first, rs.first = <<>>),
                      Ev("discard", 0, "", <<>>, TRUE)>>,
             pc |-> "done", result |-> applyErr]
    IN  IF applyErr # NoErr /\ s.active THEN rollback(Restore(s, fs, order, bad))
        ELSE [fs |-> fs, ev |-> <<>>,
              pc |-> IF applyErr # NoErr THEN "done" ELSE "after_apply",
              result |-> applyErr]

finish(s, fs, applyErr, order, bad) ==
    LET rollback(rs) ==
            [fs |-> Discard(s, rs.fs),
             ev |-> <<Ev("restore", 0, "", rs.first, rs.first = <<>>),
                      Ev("discard", 0, "", <<>>, TRUE)>>,
             pc |-> "done", result |-> applyErr]
    IN  IF applyErr # NoErr /\ s.active THEN rollback(Restore(s, fs, order, bad))
        ELSE [fs |-> IF s.active THEN Discard(s, fs) ELSE fs,
              ev |-> IF s.active THEN <<Ev("discard", 0, "", <<>>, TRUE)>> ELSE <<>>,
              pc |-> IF applyErr # NoErr THEN "done" ELSE "after_apply",
              result |-> applyErr]

\* ApplyModule: the module-level after_apply hook
afterApply(r, m, exitOK) ==
    LET h == runHook(r, m.Hooks.AfterApply, exitOK)
    IN  [ev |-> <<HookEv(0, "after_apply", h)>>,
         result |-> IF h.ok THEN NoErr ELSE Err("hook")]

(***************************************************************************)
(* The configurations and machines the model applies                       *)
(***************************************************************************)
SrcFile == <<"repo", "a.lua">>
SrcDir == <<"repo", "nvim">>

\* destination: a plain directory, the same with a trailing slash, a path
\* with a file extension
DPlain == PathStr(<<"~", "cfg">>, FALSE)
DSlash == PathStr(<<"~", "cfg">>, TRUE)
DExt == PathStr(<<"~", "b.lua">>, FALSE)

ItRunGuarded ==
    [BlankItem EXCEPT !.Run = "cmd", !.SkipIf = "test", !.Verify = "check", !.Hooks = AllHooks]
ItPkgBrew == [BlankItem EXCEPT !.Package = "git", !.Via = "brew"]
ItPkgApt == [BlankItem EXCEPT !.Package = "git", !.Via = "apt", !.SkipIf = "test"]
ItPkgCustom == [BlankItem EXCEPT !.Package = "git", !.Via = "custom"]
ItUnknown == BlankItem
ItPush == [BlankItem EXCEPT !.File = SrcFile, !.Destination = AllOS(DPlain)]
ItPushExt == [BlankItem EXCEPT !.File = SrcFile, !.Destination = AllOS(DExt)]
ItPull ==
    [BlankItem EXCEPT !.File = SrcFile, !.Destination = AllOS(DSlash), !.Direction = "pull",
                      !.Hooks = AllHooks]
ItLink == [BlankItem EXCEPT !.File = SrcFile, !.Destination = AllOS(DPlain), !.Link = TRUE]
ItDirPush == [BlankItem EXCEPT !.Directory = SrcDir, !.Destination = AllOS(DPlain)]

\* the items a module is made of, by name
ItemNames ==
    {"run", "brew", "apt", "custom", "unknown", "push", "pushext", "pull", "link", "dir"}

ItemDef(n) ==
    CASE n = "run" -> ItRunGuarded
      [] n = "brew" -> ItPkgBrew
      [] n = "apt" -> ItPkgApt
      [] n = "custom" -> ItPkgCustom
      [] n = "unknown" -> ItUnknown
      [] n = "push" -> ItPush
      [] n = "pushext" -> ItPushExt
      [] n = "pull" -> ItPull
      [] n = "link" -> ItLink
      [] n = "dir" -> ItDirPush
      [] n = "pushv" -> [ItPush EXCEPT !.Verify = "check", !.Hooks = AllHooks]
      [] n = "brewv" -> [ItPkgBrew EXCEPT !.Verify = "check"]
      [] n = "unknownv" -> [ItUnknown EXCEPT !.Verify = "check"]
      [] n = "macfile" ->
            [BlankItem EXCEPT !.File = SrcFile, !.Hooks = AllHooks,
                              !.Destination = [AllOS(NoPath) EXCEPT !.MacOS = DPlain]]
      [] n = "macdir" ->
            [BlankItem EXCEPT !.Directory = SrcDir,
                              !.Destination = [AllOS(NoPath) EXCEPT !.MacOS = DPlain]]
      [] n = "macbin" ->
            [BlankItem EXCEPT !.Binary = "tool", !.Source = [AllOS(NoPath) EXCEPT !.MacOS = DPlain]]
      [] n = "linksync" -> [ItLink EXCEPT !.Direction = "sync", !.Hooks = AllHooks]
      [] n = "dirsync" -> [ItDirPush EXCEPT !.Direction = "sync"]
      [] n = "full" ->
            [ItPull EXCEPT !.Direction = "sync", !.SkipIf = "test", !.Verify = "check"]

\* the module a state names: its items by name, its hooks declared or not
Modules ==
    [Items : UNION {[1..n -> ItemNames] : n \in 0..MaxItems}, Hooks : {NoHooks, AllHooks}]

ModuleDef(m) ==
    [Name |-> "mod", Items |-> [k \in DOMAIN m.Items |-> ItemDef(m.Items[k])],
     Hooks |-> m.Hooks]

Runners ==
    [DryRun : BOOLEAN, Atomic : BOOLEAN, OS : {"linux"}, DirectionOverride : {"", "sync"}]

\* the machine before the apply: the repository is populated; the
\* destinations are all absent (fresh) or all present with older content
FSFresh ==
    [q \in Paths |->
        IF q \in {<<"home">>, <<"repo">>, <<"repo", "nvim">>} THEN DirN
        ELSE IF q \in {<<"repo", "a.lua">>, <<"repo", "nvim", "init">>} THEN FileN("new")
        ELSE None]

FSOld ==
    [q \in Paths |->
        IF q \in {<<"home", "cfg">>, <<"home", "cfg", "nvim">>, <<"home", "nvim">>} THEN DirN
        ELSE IF q \in {<<"home", "b.lua">>, <<"home", "cfg", "a.lua">>,
                       <<"home", "cfg", "nvim", "init">>, <<"home", "nvim", "init">>}
        THEN FileN("old")
        ELSE FSFresh[q]]

Machines == {"fresh", "old"}

\* the old machine after an apply that linked ~/nvim/init to the repository
FSLinked == createSymlink(FSOld, <<"repo", "nvim", "init">>, <<"home", "nvim", "init">>).fs

\* the old machine without ~/b.lua
FSPartial == RemoveAll(FSOld, <<"home", "b.lua">>)

InitialFS(machine) ==
    IF machine = "old" THEN FSOld
    ELSE IF machine = "linked" THEN FSLinked
    ELSE IF machine = "partial" THEN FSPartial
    ELSE FSFresh

(***************************************************************************)
(* internal/registry: Fetch, the lockfile and the module cache.  A         *)
(* reference and a cache file name are sequences of characters; lock is    *)
(* LockFile.Registry, fs the cache directory by file name.                 *)
(***************************************************************************)
\* how many Fetch calls are made, in one run of dotular or several
MaxFetches == 2

\* the references of the configuration, one with a version and one without
Refs == {<<"m", "/", "a", "@", "1">>, <<"n", "/", "b">>}

\* what a registry serves or a cache file holds: two module definitions
\* and a text that is not YAML
Datas == {"v1", "v2", "junk"}

\* fmt.Sprintf("%x", sha256.Sum256(data)), on the data of the model
Sum256(data) ==
    CASE data = "v1" -> "5e1f"
      [] data = "v2" -> "c37a"
      [] OTHER -> "0b94"

\* moduleCachePath: the file name under ~/.cache/dotular/registry
moduleCachePath(rawRef) ==
    [k \in DOMAIN rawRef |-> IF rawRef[k] \in {"/", "@", ":", "."} THEN "_" ELSE rawRef[k]]
        \o <<".yaml">>

\* ParseRef(raw).FetchURL for a host that is neither dotular.dev nor github.com
FetchURL(rawRef) ==
    LET at == {k \in DOMAIN rawRef : rawRef[k] = "@"}
        cut == IF at = {} THEN Len(rawRef) + 1 ELSE CHOOSE k \in at : \A j \in at : k <= j
        name == SubSeq(rawRef, 1, cut - 1)
        version == SubSeq(rawRef, cut + 1, Len(rawRef))
        sl == {k \in DOMAIN name : name[k] = "/"}
        split == IF sl = {} THEN Len(name) + 1 ELSE CHOOSE k \in sl : \A j \in sl : k <= j
        host == SubSeq(name, 1, split - 1)
        path == SubSeq(name, split + 1, Len(name))
    IN  <<"https://">> \o host \o <<"/">> \o path
            \o (IF version # <<>> THEN <<"@">> \o version ELSE <<>>)

NoEntry == [SHA256 |-> "", FetchedAt |-> 0, URL |-> <<>>]

NoRemoteModule == [Name |-> ""]

\* parseModule: yaml.Unmarshal into a RemoteModule
parseModule(data) ==
    IF data = "junk" THEN [mod |-> NoRemoteModule, err |-> Err("parse registry module")]
    ELSE [mod |-> [Name |-> data], err |-> NoErr]

\* Fetch that takes what the network sent without looking at the lockfile
FetchTrustsNetwork(rawRef, lk, fs, noCache, net, writable, now) ==
    LET cachePath == moduleCachePath(rawRef)
        entry == lk[rawRef]
        inLock == entry # NoEntry
        fail(kind, from, read) ==
            [mod |-> NoRemoteModule, err |-> Err(kind), lock |-> lk, fs |-> fs,
             from |-> from, read |-> read]
        parsed(pm, from, read, lk1, fs1) ==
            [mod |-> pm.mod, err |-> pm.err, lock |-> lk1, fs |-> fs1,
             from |-> from, read |-> read]
        network ==
            IF net = "error" THEN fail("fetch", "network", "")
            ELSE parsed(parseModule(net), "network", net,
                        [lk EXCEPT ![rawRef] = [SHA256 |-> Sum256(net), FetchedAt |-> now,
                                                URL |-> FetchURL(rawRef)]],
                        IF writable THEN [fs EXCEPT ![cachePath] = FileN(net)] ELSE fs)
    IN  IF ~noCache /\ inLock /\ fs[cachePath].k = "file"
        THEN IF Sum256(fs[cachePath].c) # entry.SHA256
             THEN fail("checksum mismatch", "cache", fs[cachePath].c)
             ELSE parsed(parseModule(fs[cachePath].c), "cache", fs[cachePath].c, lk, fs)
        ELSE network

\* registry.Fetch.  net is what download returns ("error": it failed),
\* writable whether writeCacheFile succeeds, now the clock
Fetch(rawRef, lk, fs, noCache, net, writable, now) ==
    LET cachePath == moduleCachePath(rawRef)
        entry == lk[rawRef]
        inLock == entry # NoEntry
        fail(kind, from, read) ==
            [mod |-> NoRemoteModule, err |-> Err(kind), lock |-> lk, fs |-> fs,
             from |-> from, read |-> read]
        parsed(pm, from, read, lk1, fs1) ==
            [mod |-> pm.mod, err |-> pm.err, lock |-> lk1, fs |-> fs1,
             from |-> from, read |-> read]
        network ==
            IF net = "error" THEN fail("fetch", "network", "")
            ELSE IF inLock /\ entry.SHA256 # Sum256(net)
            THEN fail("checksum mismatch", "network", net)
            ELSE parsed(parseModule(net), "network", net,
                        [lk EXCEPT ![rawRef] = [SHA256 |-> Sum256(net), FetchedAt |-> now,
                                                URL |-> FetchURL(rawRef)]],
                        IF writable THEN [fs EXCEPT ![cachePath] = FileN(net)] ELSE fs)
    IN  IF ~noCache /\ inLock /\ fs[cachePath].k = "file"
        THEN IF Sum256(fs[cachePath].c) # entry.SHA256
             THEN fail("checksum mismatch", "cache", fs[cachePath].c)
             ELSE parsed(parseModule(fs[cachePath].c), "cache", fs[cachePath].c, lk, fs)
        ELSE network

(***************************************************************************)
(* One ApplyModule call                                                    *)
(***************************************************************************)
\* an empty LockFile.Registry, as LoadLock makes it
NoLock == <<>>

VARIABLES r, mod, machine, fs, snap, pc, idx, applyErr, result, log, modIdx, ctx, args,
          lock

vars == <<r, mod, machine, fs, snap, pc, idx, applyErr, result, log, modIdx, ctx, args,
          lock>>

\* the module being applied and the file system before the call
M == ModuleDef(mod)

FS0 == InitialFS(machine)

Init ==
    /\ r \in Runners
    /\ mod \in Modules
    /\ machine \in Machines
    /\ fs = InitialFS(machine)
    /\ snap = NoSnap
    /\ pc = "before_apply"
    /\ idx = 1
    /\ applyErr = NoErr
    /\ result = NoErr
    /\ log = <<>>
    /\ modIdx = 0
    /\ ctx = "live"
    /\ args = <<>>
    /\ lock = NoLock

ModuleBeforeApply ==
    /\ pc = "before_apply"
    /\ \E exitOK \in ExitsUnder(ctx) :
        \E o \in {beforeApply(r, M, exitOK)} :
            /\ log' = log \o o.ev
            /\ pc' = o.pc
            /\ result' = o.result
    /\ UNCHANGED <<lock, args, modIdx, ctx, r, mod, machine, fs, snap, idx, applyErr>>

CreateSnapshot ==
    /\ pc = "snapshot"
    /\ \E mkOK \in BOOLEAN :
        \E o \in {newSnapshot(r, fs, mkOK)} :
            /\ snap' = o.snap
            /\ fs' = o.fs
            /\ log' = log \o o.ev
            /\ pc' = o.pc
            /\ result' = o.result
    /\ UNCHANGED <<lock, args, modIdx, ctx, r, mod, machine, idx, applyErr>>

ModuleBeforeSync ==
    /\ pc = "before_sync"
    /\ \E exitOK \in ExitsUnder(ctx) :
        \E o \in {beforeSync(r, M, exitOK)} :
            /\ log' = log \o o.ev
            /\ pc' = o.pc
            /\ applyErr' = o.applyErr
    /\ UNCHANGED <<lock, args, modIdx, ctx, r, mod, machine, fs, snap, idx, result>>

ApplyItem ==
    /\ pc = "items"
    /\ idx <= Len(mod.Items)
    /\ \E env \in EnvsUnder(ctx, r, M.Items[idx]) :
        \E o \in {applyItem(r, M.Items[idx], idx, snap, fs, env)} :
            /\ snap' = o.snap
            /\ fs' = o.fs
            /\ log' = log \o o.ev \o <<Ev("return", idx, o.err.kind, <<>>, o.err = NoErr)>>
            /\ applyErr' = o.err
            /\ pc' = afterItem(M, idx, o.err)
            /\ idx' = idx + 1
    /\ UNCHANGED <<lock, args, modIdx, ctx, r, mod, machine, result>>

ModuleAfterSync ==
    /\ pc = "after_sync"
    /\ \E exitOK \in ExitsUnder(ctx) :
        \E o \in {afterSync(r, M, exitOK)} :
            /\ log' = log \o o.ev
            /\ applyErr' = o.applyErr
            /\ pc' = "finish"
    /\ UNCHANGED <<lock, args, modIdx, ctx, r, mod, machine, fs, snap, idx, result>>

Finish ==
    /\ pc = "finish"
    /\ \E order \in Orders(Len(snap.saved)), bad \in SUBSET SavedKeys(snap) :
        \E o \in {finish(snap, fs, applyErr, order, bad)} :
            /\ fs' = o.fs
            /\ log' = log \o o.ev
            /\ pc' = o.pc
            /\ result' = o.result
    /\ UNCHANGED <<lock, args, modIdx, ctx, r, mod, machine, snap, idx, applyErr>>

ModuleAfterApply ==
    /\ pc = "after_apply"
    /\ \E exitOK \in ExitsUnder(ctx) :
        \E o \in {afterApply(r, M, exitOK)} :
            /\ log' = log \o o.ev
            /\ result' = o.result
            /\ pc' = "done"
    /\ UNCHANGED <<lock, args, modIdx, ctx, r, mod, machine, fs, snap, idx, applyErr>>

Next ==
    \/ ModuleBeforeApply
    \/ CreateSnapshot
    \/ ModuleBeforeSync
    \/ ApplyItem
    \/ ModuleAfterSync
    \/ Finish
    \/ ModuleAfterApply

Spec == Init /\ [][Next]_vars

(***************************************************************************)
(* ApplyAll: the loop over the modules of the configuration                *)
(***************************************************************************)
MaxModules == 3

\* Matches that looks at onlyTags before excludeTags
MatchesOnlyFirst(machineTags, onlyTags, excludeTags) ==
    LET Contains(tagList, t) == \E k \in 1..Len(tagList) : tagList[k] = t
    IN  IF \E i \in 1..Len(onlyTags) : Contains(machineTags, onlyTags[i]) THEN TRUE
        ELSE IF \E i \in 1..Len(excludeTags) : Contains(machineTags, excludeTags[i]) THEN FALSE
        ELSE Len(onlyTags) = 0

\* tags.Matches
Matches(machineTags, onlyTags, excludeTags) ==
    LET Contains(tagList, t) == \E k \in 1..Len(tagList) : tagList[k] = t
    IN  IF \E i \in 1..Len(excludeTags) : Contains(machineTags, excludeTags[i]) THEN FALSE
        ELSE IF Len(onlyTags) = 0 THEN TRUE
        ELSE \E i \in 1..Len(onlyTags) : Contains(machineTags, onlyTags[i])

\* Runner.matchesTags
matchesTags(rn, m) == Matches(rn.MachineTags, m.OnlyTags, m.ExcludeTags)

\* the modules a configuration is made of, by name
ConfigModuleNames == {"files", "tools", "ext", "dirs"}

ConfigModule(n) ==
    CASE n = "files" ->
            [Items |-> <<"push">>, Hooks |-> NoHooks, OnlyTags |-> <<>>, ExcludeTags |-> <<>>]
      [] n = "tools" ->
            [Items |-> <<"run">>, Hooks |-> NoHooks, OnlyTags |-> <<>>, ExcludeTags |-> <<>>]
      [] n = "ext" ->
            [Items |-> <<"pushext">>, Hooks |-> NoHooks, OnlyTags |-> <<"work">>,
             ExcludeTags |-> <<>>]
      [] n = "dirs" ->
            [Items |-> <<"dir">>, Hooks |-> NoHooks, OnlyTags |-> <<>>,
             ExcludeTags |-> <<"home">>]
      [] n = "both" ->
            [Items |-> <<"push">>, Hooks |-> AllHooks, OnlyTags |-> <<"desktop", "work">>,
             ExcludeTags |-> <<"home">>]
      [] n = "wtools" ->
            [Items |-> <<"run", "pushv">>, Hooks |-> NoHooks, OnlyTags |-> <<"work">>,
             ExcludeTags |-> <<>>]

Configs == UNION {[1..n -> ConfigModuleNames] : n \in 1..MaxModules}

RunnersAll ==
    [DryRun : {FALSE}, Atomic : BOOLEAN, OS : {"linux"}, DirectionOverride : {""},
     Config : [Modules : Configs], MachineTags : {<<"work">>, <<"home">>}]

NoModule == [Items |-> <<>>, Hooks |-> NoHooks]

InitAll ==
    /\ r \in RunnersAll
    /\ mod = NoModule
    /\ machine \in Machines
    /\ fs = InitialFS(machine)
    /\ snap = NoSnap
    /\ pc = "apply_all"
    /\ idx = 1
    /\ applyErr = NoErr
    /\ result = NoErr
    /\ log = <<>>
    /\ modIdx = 1
    /\ ctx = "live"
    /\ args = <<>>
    /\ lock = NoLock

\* ApplyAll: the head of one iteration: a module whose tags do not match is
\* passed over, any other is handed to ApplyModule
ApplyAllNext ==
    /\ pc = "apply_all"
    /\ modIdx <= Len(r.Config.Modules)
    /\ \E m \in {ConfigModule(r.Config.Modules[modIdx])} :
        IF ~matchesTags(r, m)
        THEN /\ modIdx' = modIdx + 1
             /\ log' = Append(log, Ev("tagskip", modIdx, r.Config.Modules[modIdx], <<>>, TRUE))
             /\ UNCHANGED <<mod, snap, pc, idx, applyErr, result>>
        ELSE /\ mod' = [Items |-> m.Items, Hooks |-> m.Hooks]
             /\ snap' = NoSnap
             /\ pc' = "before_apply"
             /\ idx' = 1
             /\ applyErr' = NoErr
             /\ result' = NoErr
             /\ log' = Append(log, Ev("module", modIdx, r.Config.Modules[modIdx], <<>>, TRUE))
             /\ UNCHANGED modIdx
    /\ UNCHANGED <<lock, args, ctx, r, machine, fs>>

\* afterModule that goes on to the next module whatever ApplyModule returned
afterModuleContinues(err, i) == [pc |-> "apply_all", modIdx |-> i + 1]

\* ApplyAll: where the loop goes after ApplyModule returned err for module i
afterModule(err, i) ==
    IF err # NoErr THEN [pc |-> "returned", modIdx |-> i]
    ELSE [pc |-> "apply_all", modIdx |-> i + 1]

\* ApplyAll: ApplyModule has returned
ApplyAllReturn ==
    /\ pc = "done"
    /\ args = <<>>
    /\ log' = Append(log, Ev("module_end", modIdx, result.kind, <<>>, result = NoErr))
    /\ pc' = afterModule(result, modIdx).pc
    /\ modIdx' = afterModule(result, modIdx).modIdx
    /\ UNCHANGED <<lock, args, ctx, r, mod, machine, fs, snap, idx, applyErr, result>>

\* ApplyAll: the loop is over
ApplyAllEnd ==
    /\ pc = "apply_all"
    /\ modIdx > Len(r.Config.Modules)
    /\ pc' = "returned"
    /\ result' = NoErr
    /\ UNCHANGED <<lock, args, modIdx, ctx, r, mod, machine, fs, snap, idx, applyErr, log>>

NextAll ==
    \/ ApplyAllNext
    \/ ApplyAllReturn
    \/ ApplyAllEnd
    \/ ModuleBeforeApply
    \/ CreateSnapshot
    \/ ModuleBeforeSync
    \/ ApplyItem
    \/ ModuleAfterSync
    \/ Finish
    \/ ModuleAfterApply

SpecAll == InitAll /\ [][NextAll]_vars

(***************************************************************************)
(* The apply, push, pull and sync commands: ApplyAll without arguments,    *)
(* else ApplyModule for each module named, in the order given.             *)
(***************************************************************************)
MaxArgs == 2

\* newRunner(cfg) for one configuration, the machine's tags as tags.Load
\* returns them, and the command's arguments; args = <<>> calls r.ApplyAll
InitCmd ==
    /\ r \in [DryRun : {FALSE}, Atomic : BOOLEAN, OS : {"linux"}, DirectionOverride : {""},
              Config : [Modules : {<<"files", "ext", "dirs", "both">>}],
              MachineTags : UNION {[1..n -> {"work", "home"}] : n \in 0..2}]
    /\ args \in UNION {[1..n -> {"files", "ext", "dirs", "both", "absent"}] : n \in 0..MaxArgs}
    /\ mod = NoModule
    /\ machine \in Machines
    /\ fs = InitialFS(machine)
    /\ snap = NoSnap
    /\ pc = IF args = <<>> THEN "apply_all" ELSE "apply_named"
    /\ idx = 1
    /\ applyErr = NoErr
    /\ result = NoErr
    /\ log = <<>>
    /\ modIdx = 1
    /\ ctx = "live"
    /\ lock = NoLock

\* for _, name := range args: cfg.Module(name), then r.ApplyModule(ctx, *mod);
\* after the last name, return nil
ApplyNamedNext ==
    /\ pc = "apply_named"
    /\ IF modIdx > Len(args)
       THEN /\ pc' = "returned"
            /\ result' = NoErr
            /\ UNCHANGED <<mod, snap, idx, applyErr, log>>
       ELSE IF \A k \in 1..Len(r.Config.Modules) : r.Config.Modules[k] # args[modIdx]
       THEN /\ pc' = "returned"
            /\ result' = Err("not found")
            /\ UNCHANGED <<mod, snap, idx, applyErr, log>>
       ELSE \E m \in {ConfigModule(args[modIdx])} :
            /\ mod' = [Items |-> m.Items, Hooks |-> m.Hooks]
            /\ snap' = NoSnap
            /\ pc' = "before_apply"
            /\ idx' = 1
            /\ applyErr' = NoErr
            /\ result' = NoErr
            /\ log' = Append(log, Ev("module", modIdx, args[modIdx], <<>>, TRUE))
    /\ UNCHANGED <<lock, args, modIdx, ctx, r, machine, fs>>

\* r.ApplyModule has returned to the command's loop
ApplyNamedReturn ==
    /\ pc = "done"
    /\ args # <<>>
    /\ log' = Append(log, Ev("module_end", modIdx, result.kind, <<>>, result = NoErr))
    /\ pc' = IF result # NoErr THEN "returned" ELSE "apply_named"
    /\ modIdx' = IF result # NoErr THEN modIdx ELSE modIdx + 1
    /\ UNCHANGED <<lock, args, ctx, r, mod, machine, fs, snap, idx, applyErr, result>>

NextCmd ==
    \/ ApplyNamedNext
    \/ ApplyNamedReturn
    \/ ApplyAllNext
    \/ ApplyAllReturn
    \/ ApplyAllEnd
    \/ ModuleBeforeApply
    \/ CreateSnapshot
    \/ ModuleBeforeSync
    \/ ApplyItem
    \/ ModuleAfterSync
    \/ Finish
    \/ ModuleAfterApply

SpecCmd == InitCmd /\ [][NextCmd]_vars

(***************************************************************************)
(* ApplyModule under a context the caller cancels                          *)
(***************************************************************************)
\* the module-level hook whose subprocess ApplyModule is about to wait for
ModuleHookRunning ==
    CASE pc = "before_apply" -> M.Hooks.BeforeApply # ""
      [] pc = "before_sync" -> hasSyncItem(r, M) /\ M.Hooks.BeforeSync # ""
      [] pc = "after_sync" -> hasSyncItem(r, M) /\ M.Hooks.AfterSync # ""
      [] pc = "after_apply" -> M.Hooks.AfterApply # ""
      [] OTHER -> FALSE

\* the section named at was entered by the applyItem call that logged ev
Reached(ev, at) ==
    \E k \in DOMAIN ev :
        CASE at = "skip_if" -> ev[k].e = "eval"
          [] at = "run" -> ev[k].e = "run" /\ ev[k].a = "real"
          [] at = "verify" -> ev[k].e = "verify"
          [] OTHER -> ev[k].e = "hook" /\ ev[k].a = at /\ ev[k].mode = "run"

\* the sections of applyItem the context can be cancelled in
SuspensionPoints ==
    {"skip_if", "before_apply", "before_sync", "run", "verify", "after_sync", "after_apply"}

\* The context is cancelled while a module-level hook runs: the subprocess is
\* killed and shell.Run returns its *exec.ExitError, which is what the hook's
\* step then sees.
CancelInModuleHook ==
    /\ ctx = "live"
    /\ ~r.DryRun
    /\ ModuleHookRunning
    /\ ctx' = "cancelled"
    /\ log' = Append(log, Ev("cancel", IF pc \in {"before_apply", "before_sync"} THEN 0
                                       ELSE Len(mod.Items), pc, <<>>, TRUE))
    /\ UNCHANGED <<lock, args, modIdx, r, mod, machine, fs, snap, pc, idx, applyErr, result>>

\* The context is cancelled while applyItem is in the section named at.
CancelInItem ==
    /\ ctx = "live"
    /\ pc = "items"
    /\ idx <= Len(mod.Items)
    /\ \E at \in SuspensionPoints :
        \E env \in CancelledEnvs(r, M.Items[idx], at, TRUE) :
            \E o \in {applyItem(r, M.Items[idx], idx, snap, fs, env)} :
                /\ Reached(o.ev, at)
                /\ snap' = o.snap
                /\ fs' = o.fs
                /\ log' = log \o <<Ev("cancel", idx, at, <<>>, TRUE)>> \o o.ev
                               \o <<Ev("return", idx, o.err.kind, <<>>, o.err = NoErr)>>
                /\ applyErr' = o.err
                /\ pc' = afterItem(M, idx, o.err)
                /\ idx' = idx + 1
    /\ ctx' = "cancelled"
    /\ UNCHANGED <<lock, args, modIdx, r, mod, machine, result>>

NextCancel ==
    \/ CancelInModuleHook
    \/ CancelInItem
    \/ ModuleBeforeApply
    \/ CreateSnapshot
    \/ ModuleBeforeSync
    \/ ApplyItem
    \/ ModuleAfterSync
    \/ Finish
    \/ ModuleAfterApply

SpecCancel == Init /\ [][NextCancel]_vars

(***************************************************************************)
(* The snapshot on its own: Record some paths, let the file system change  *)
(* the ways a module's actions change it, Restore, Discard.                *)
(***************************************************************************)
SnapMachines == {"fresh", "old", "linked", "partial"}

\* how many paths one Restore may fail to put back or to remove
MaxRestoreFailures == 1

\* the paths handed to Record: two files and a directory
RecPaths == {<<"home", "cfg", "a.lua">>, <<"home", "b.lua">>, <<"home", "nvim">>}

\* the files an action may write or replace by a link
MutFiles == {<<"home", "cfg", "a.lua">>, <<"home", "b.lua">>, <<"home", "nvim", "init">>}

pushFile == [NoAction EXCEPT !.kind = "file", !.Source = SrcFile]

InitSnap ==
    /\ r = [DryRun |-> FALSE, Atomic |-> TRUE, OS |-> "linux", DirectionOverride |-> ""]
    /\ mod = [Items |-> <<>>, Hooks |-> NoHooks]
    /\ machine \in SnapMachines
    /\ fs = New(InitialFS(machine)).fs
    /\ snap = New(InitialFS(machine)).snap
    /\ pc = "s_record"
    /\ idx = 1
    /\ applyErr = NoErr
    /\ result = NoErr
    /\ log = <<>>
    /\ modIdx = 0
    /\ ctx = "live"
    /\ args = <<>>
    /\ lock = NoLock

\* snap.Record(p), before anything is changed
SnapRecord ==
    /\ pc = "s_record"
    /\ \E p \in RecPaths \ (SavedKeys(snap) \cup CreatedSet(snap)) :
        \E o \in {Record(snap, fs, p)} :
            /\ snap' = o.snap
            /\ fs' = o.fs
            /\ log' = Append(log, Ev("record", 0, "", p, o.ok))
    /\ UNCHANGED <<lock, args, modIdx, ctx, r, mod, machine, pc, idx, applyErr, result>>

Mutating == pc \in {"s_record", "s_mutate"} /\ snap.saved \o snap.created # <<>>

\* a push writes the file p (FileAction.runPush)
SnapOverwrite ==
    /\ Mutating
    /\ \E p \in MutFiles :
        \E o \in {runPush(pushFile, fs, Dir(p), p)} : o.fs # fs /\ fs' = o.fs
    /\ pc' = "s_mutate"
    /\ UNCHANGED <<lock, args, modIdx, ctx, r, mod, machine, snap, idx, applyErr, result, log>>

\* a link item replaces p by a symbolic link (createSymlink)
SnapLink ==
    /\ Mutating
    /\ \E p \in MutFiles :
        \E o \in {createSymlink(fs, SrcFile, p)} : o.fs # fs /\ fs' = o.fs
    /\ pc' = "s_mutate"
    /\ UNCHANGED <<lock, args, modIdx, ctx, r, mod, machine, snap, idx, applyErr, result, log>>

\* a directory push fills the directory ~/nvim (DirectoryAction.Run, copyDir)
SnapCopyDir ==
    /\ Mutating
    /\ \E o \in {copyDir(fs, SrcDir, <<"home", "nvim">>)} : o.fs # fs /\ fs' = o.fs
    /\ pc' = "s_mutate"
    /\ UNCHANGED <<lock, args, modIdx, ctx, r, mod, machine, snap, idx, applyErr, result, log>>

\* a recorded path, file or tree, is deleted
SnapDelete ==
    /\ Mutating
    /\ \E p \in RecPaths : RemoveAll(fs, p) # fs /\ fs' = RemoveAll(fs, p)
    /\ pc' = "s_mutate"
    /\ UNCHANGED <<lock, args, modIdx, ctx, r, mod, machine, snap, idx, applyErr, result, log>>

\* snap.Record(p) once more, for a path recorded before the changes
SnapRecordAgain ==
    /\ pc = "s_mutate"
    /\ \E p \in SavedKeys(snap) \cup CreatedSet(snap) :
        \E o \in {Record(snap, fs, p)} :
            /\ snap' = o.snap
            /\ fs' = o.fs
            /\ log' = Append(log, Ev("record", 0, "again", p, o.ok))
    /\ pc' = "s_again"
    /\ UNCHANGED <<lock, args, modIdx, ctx, r, mod, machine, idx, applyErr, result>>

\* snap.Restore()
SnapRestore ==
    /\ Mutating
    /\ \E order \in Orders(Len(snap.saved)) :
      \E bad \in {b \in SUBSET (SavedKeys(snap) \cup CreatedSet(snap)) :
                      Cardinality(b) <= MaxRestoreFailures} :
        \E o \in {Restore(snap, fs, order, bad)} :
            /\ fs' = o.fs
            /\ result' = IF o.first = <<>> THEN NoErr ELSE Err("restore")
            /\ log' = log \o [k \in 1..Len(o.tried) |->
                                 Ev(o.tried[k].e, 0, "", o.tried[k].p, o.tried[k].ok)]
                          \o <<Ev("restore", 0, "", o.first, o.first = <<>>)>>
    /\ pc' = "s_restored"
    /\ UNCHANGED <<lock, args, modIdx, ctx, r, mod, machine, snap, idx, applyErr>>

\* snap.Discard()
SnapDiscard ==
    /\ pc = "s_restored"
    /\ fs' = Discard(snap, fs)
    /\ log' = Append(log, Ev("discard", 0, "", <<>>, TRUE))
    /\ pc' = "s_done"
    /\ UNCHANGED <<lock, args, modIdx, ctx, r, mod, machine, snap, idx, applyErr, result>>

NextSnap ==
    \/ SnapRecord
    \/ SnapOverwrite
    \/ SnapLink
    \/ SnapCopyDir
    \/ SnapDelete
    \/ SnapRecordAgain
    \/ SnapRestore
    \/ SnapDiscard

SpecSnap == InitSnap /\ [][NextSnap]_vars

(***************************************************************************)
(* The snapshot as applyItem drives it: Record is called right before each *)
(* item's Run, so a path is recorded after earlier items changed files,    *)
(* and the destination of one item may lie inside that of another.         *)
(***************************************************************************)
\* the destinations recorded item by item: a file, the directory around it,
\* and a file elsewhere
NestPaths == {<<"home", "nvim", "init">>, <<"home", "nvim">>, <<"home", "b.lua">>}

InitNest ==
    /\ r = [DryRun |-> FALSE, Atomic |-> TRUE, OS |-> "linux", DirectionOverride |-> ""]
    /\ mod = [Items |-> <<>>, Hooks |-> NoHooks]
    /\ machine \in Machines
    /\ fs = New(InitialFS(machine)).fs
    /\ snap = New(InitialFS(machine)).snap
    /\ pc = "s_record"
    /\ idx = 1
    /\ applyErr = NoErr
    /\ result = NoErr
    /\ log = <<>>
    /\ modIdx = 0
    /\ ctx = "live"
    /\ args = <<>>
    /\ lock = NoLock

\* snap.Record(p) for the next item, whatever the items before it changed
SnapRecordNext ==
    /\ pc \in {"s_record", "s_mutate"}
    /\ \E p \in NestPaths \ (SavedKeys(snap) \cup CreatedSet(snap)) :
        \E o \in {Record(snap, fs, p)} :
            /\ snap' = o.snap
            /\ fs' = o.fs
            /\ log' = Append(log, Ev("record", 0, IF pc = "s_mutate" THEN "late" ELSE "", p, o.ok))
    /\ UNCHANGED <<lock, args, modIdx, ctx, r, mod, machine, pc, idx, applyErr, result>>

NextNest ==
    \/ SnapRecordNext
    \/ SnapOverwrite
    \/ SnapCopyDir
    \/ SnapDelete
    \/ SnapRestore
    \/ SnapDiscard

SpecNest == InitNest /\ [][NextNest]_vars

(***************************************************************************)
(* VerifyModule: the verify commands of one module's items.                *)
(***************************************************************************)
\* VerifyModule's loop body that leaves allPassed alone when a command fails
verifyItemKeepsPassing(rn, item, i, exitOK) ==
    LET b == buildAction(rn, item)
        outcome == IF exitOK THEN "success" ELSE "failure"
    IN  IF item.Verify = "" THEN [ev |-> <<Ev("noverify", i, "", <<>>, TRUE)>>, passed |-> TRUE]
        ELSE IF b.err \/ b.skip
        THEN [ev |-> <<Ev("build", i, "", <<>>, ~b.err)>>, passed |-> TRUE]
        ELSE [ev |-> <<Ev("build", i, "", <<>>, TRUE),
                       Ev("verify", i, "", <<>>, exitOK),
                       [Ev("audit", i, outcome, <<>>, TRUE) EXCEPT !.mode = "verify"]>>,
              passed |-> TRUE]

\* VerifyModule's loop body that evaluates skip_if before the verify command
verifyItemEvaluatesSkipIf(rn, item, i, exitOK) ==
    LET b == buildAction(rn, item)
        outcome == IF exitOK THEN "success" ELSE "failure"
    IN  IF item.Verify = "" THEN [ev |-> <<Ev("noverify", i, "", <<>>, TRUE)>>, passed |-> TRUE]
        ELSE IF b.err \/ b.skip
        THEN [ev |-> <<Ev("build", i, "", <<>>, ~b.err)>>, passed |-> TRUE]
        ELSE IF item.SkipIf # ""
        THEN [ev |-> <<Ev("build", i, "", <<>>, TRUE), Ev("eval", i, "zero", <<>>, TRUE)>>,
              passed |-> TRUE]
        ELSE [ev |-> <<Ev("build", i, "", <<>>, TRUE),
                       Ev("verify", i, "", <<>>, exitOK),
                       [Ev("audit", i, outcome, <<>>, TRUE) EXCEPT !.mode = "verify"]>>,
              passed |-> exitOK]

\* one iteration of VerifyModule's loop; exitOK is whether shell.Run returned
\* nil for item.Verify.  The audit entry's Command is "verify".
verifyItem(rn, item, i, exitOK) ==
    LET b == buildAction(rn, item)
        outcome == IF exitOK THEN "success" ELSE "failure"
    IN  IF item.Verify = "" THEN [ev |-> <<Ev("noverify", i, "", <<>>, TRUE)>>, passed |-> TRUE]
        ELSE IF b.err \/ b.skip
        THEN [ev |-> <<Ev("build", i, "", <<>>, ~b.err)>>, passed |-> TRUE]
        ELSE [ev |-> <<Ev("build", i, "", <<>>, TRUE),
                       Ev("verify", i, "", <<>>, exitOK),
                       [Ev("audit", i, outcome, <<>>, TRUE) EXCEPT !.mode = "verify"]>>,
              passed |-> exitOK]

\* a runner of any mode and a module of items with and without a verify
\* command: buildable, not for this OS, of no known type
InitVerify ==
    /\ r \in Runners
    /\ mod \in [Items : UNION {[1..n -> {"run", "push", "pushv", "brewv", "unknownv"}] :
                                  n \in 0..MaxItems},
                Hooks : {NoHooks, AllHooks}]
    /\ machine \in Machines
    /\ fs = InitialFS(machine)
    /\ snap = NoSnap
    /\ pc = "verify"
    /\ idx = 1
    /\ applyErr = NoErr
    /\ result = [allPassed |-> TRUE, err |-> NoErr]
    /\ log = <<>>
    /\ modIdx = 0
    /\ ctx = "live"
    /\ args = <<>>
    /\ lock = NoLock

\* for _, item := range mod.Items
VerifyItem ==
    /\ pc = "verify"
    /\ idx <= Len(mod.Items)
    /\ \E exitOK \in ExitsUnder(ctx) :
        \E o \in {verifyItem(r, M.Items[idx], idx, exitOK)} :
            /\ log' = log \o o.ev
            /\ result' = [result EXCEPT !.allPassed = @ /\ o.passed]
    /\ idx' = idx + 1
    /\ UNCHANGED <<lock, args, modIdx, ctx, r, mod, machine, fs, snap, pc, applyErr>>

\* return allPassed, nil
VerifyReturn ==
    /\ pc = "verify"
    /\ idx > Len(mod.Items)
    /\ pc' = "verified"
    /\ UNCHANGED <<lock, args, modIdx, ctx, r, mod, machine, fs, snap, idx, applyErr, result, log>>

NextVerify ==
    \/ VerifyItem
    \/ VerifyReturn

SpecVerify == InitVerify /\ [][NextVerify]_vars

(***************************************************************************)
(* Runner.VerifyAll: VerifyModule for every module of the configuration    *)
(* whose tags match.  result.all is VerifyAll's allPassed, result.allPassed *)
(* that of the VerifyModule call under way.                                *)
(***************************************************************************)
InitVerifyAll ==
    /\ r \in [DryRun : {FALSE}, Atomic : {FALSE}, OS : {"linux"}, DirectionOverride : {""},
              Config : [Modules : UNION {[1..n -> {"tools", "wtools", "files", "dirs"}] :
                                            n \in 1..MaxModules}],
              MachineTags : {<<>>, <<"work">>, <<"home">>}]
    /\ mod = NoModule
    /\ machine \in {"old"}
    /\ fs = InitialFS(machine)
    /\ snap = NoSnap
    /\ pc = "verify_all"
    /\ idx = 1
    /\ applyErr = NoErr
    /\ result = [allPassed |-> TRUE, err |-> NoErr, all |-> TRUE]
    /\ log = <<>>
    /\ modIdx = 1
    /\ ctx = "live"
    /\ args = <<>>
    /\ lock = NoLock

\* VerifyAll: the head of one iteration: a module whose tags do not match is
\* passed over, any other is handed to VerifyModule
VerifyAllNext ==
    /\ pc = "verify_all"
    /\ modIdx <= Len(r.Config.Modules)
    /\ \E m \in {ConfigModule(r.Config.Modules[modIdx])} :
        IF ~matchesTags(r, m)
        THEN /\ modIdx' = modIdx + 1
             /\ log' = Append(log, Ev("tagskip", modIdx, r.Config.Modules[modIdx], <<>>, TRUE))
             /\ UNCHANGED <<mod, pc, idx, result>>
        ELSE /\ mod' = [Items |-> m.Items, Hooks |-> m.Hooks]
             /\ pc' = "verify"
             /\ idx' = 1
             /\ result' = [result EXCEPT !.allPassed = TRUE, !.err = NoErr]
             /\ log' = Append(log, Ev("module", modIdx, r.Config.Modules[modIdx], <<>>, TRUE))
             /\ UNCHANGED modIdx
    /\ UNCHANGED <<lock, args, ctx, r, machine, fs, snap, applyErr>>

\* afterVerifyModule that returns at the first module that did not pass
afterVerifyModuleStops(res, i) ==
    IF res.err # NoErr \/ ~res.allPassed
    THEN [pc |-> "verified_all", modIdx |-> i, all |-> FALSE]
    ELSE [pc |-> "verify_all", modIdx |-> i + 1, all |-> res.all]

\* VerifyAll: where the loop goes after VerifyModule returned
\* (res.allPassed, res.err) for module i
afterVerifyModule(res, i) ==
    IF res.err # NoErr THEN [pc |-> "verified_all", modIdx |-> i, all |-> FALSE]
    ELSE [pc |-> "verify_all", modIdx |-> i + 1, all |-> res.all /\ res.allPassed]

\* VerifyAll: VerifyModule has returned
VerifyAllReturn ==
    /\ pc = "verified"
    /\ modIdx >= 1
    /\ \E o \in {afterVerifyModule(result, modIdx)} :
        /\ log' = Append(log, Ev("module_end", modIdx, "", <<>>, result.allPassed))
        /\ pc' = o.pc
        /\ modIdx' = o.modIdx
        /\ result' = [result EXCEPT !.all = o.all]
    /\ UNCHANGED <<lock, args, ctx, r, mod, machine, fs, snap, idx, applyErr>>

\* VerifyAll: the loop is over: return allPassed, nil
VerifyAllEnd ==
    /\ pc = "verify_all"
    /\ modIdx > Len(r.Config.Modules)
    /\ pc' = "verified_all"
    /\ UNCHANGED <<lock, args, modIdx, ctx, r, mod, machine, fs, snap, idx, applyErr, result, log>>

NextVerifyAll ==
    \/ VerifyAllNext
    \/ VerifyAllReturn
    \/ VerifyAllEnd
    \/ VerifyItem
    \/ VerifyReturn

SpecVerifyAll == InitVerifyAll /\ [][NextVerifyAll]_vars

(***************************************************************************)
(* ApplyModule over items that are not for this OS, items of every         *)
(* declared direction under every command, and an audit log that cannot    *)
(* be written.                                                             *)
(***************************************************************************)
InitBuild ==
    /\ r \in [DryRun : BOOLEAN, Atomic : {TRUE}, OS : {"linux"},
              DirectionOverride : {"", "push", "pull", "sync"}]
    /\ mod \in [Items : UNION {[1..n -> {"brew", "custom", "macfile", "macdir", "macbin",
                                         "push", "pull", "linksync", "dirsync", "full"}] :
                                  n \in 0..MaxItems},
                Hooks : {NoHooks}]
    /\ machine \in {"old"}
    /\ fs = InitialFS(machine)
    /\ snap = NoSnap
    /\ pc = "before_apply"
    /\ idx = 1
    /\ applyErr = NoErr
    /\ result = NoErr
    /\ log = <<>>
    /\ modIdx = 0
    /\ ctx = "live"
    /\ args = <<>>
    /\ lock = NoLock

\* applyItem on a machine where audit.Log cannot write: logPath, os.MkdirAll
\* or os.OpenFile fails and Log returns without a word
ApplyItemAuditFails ==
    /\ pc = "items"
    /\ idx <= Len(mod.Items)
    /\ \E env \in {[e EXCEPT !.audit = FALSE] : e \in EnvsUnder(ctx, r, M.Items[idx])} :
        \E o \in {applyItem(r, M.Items[idx], idx, snap, fs, env)} :
            /\ snap' = o.snap
            /\ fs' = o.fs
            /\ log' = log \o o.ev \o <<Ev("return", idx, o.err.kind, <<>>, o.err = NoErr)>>
            /\ applyErr' = o.err
            /\ pc' = afterItem(M, idx, o.err)
            /\ idx' = idx + 1
    /\ UNCHANGED <<lock, args, modIdx, ctx, r, mod, machine, result>>

NextBuild ==
    \/ ApplyItemAuditFails
    \/ ModuleBeforeApply
    \/ CreateSnapshot
    \/ ModuleBeforeSync
    \/ ApplyItem
    \/ ModuleAfterSync
    \/ Finish
    \/ ModuleAfterApply

SpecBuild == InitBuild /\ [][NextBuild]_vars

InitFetch ==
    /\ r = [DryRun |-> FALSE, Atomic |-> FALSE, OS |-> "linux", DirectionOverride |-> ""]
    /\ mod = [Items |-> <<>>, Hooks |-> NoHooks]
    /\ machine = "fresh"
    /\ fs \in [{moduleCachePath(ref) : ref \in Refs} -> {None} \cup {FileN(d) : d \in Datas}]
    /\ snap = NoSnap
    /\ pc = "fetch"
    /\ idx = 1
    /\ applyErr = NoErr
    /\ result = [mod |-> NoRemoteModule, err |-> NoErr]
    /\ log = <<>>
    /\ modIdx = 0
    /\ ctx = "live"
    /\ args = <<>>
    /\ lock \in {l \in [Refs -> {NoEntry} \cup [SHA256 : {Sum256(d) : d \in Datas},
                                                FetchedAt : {0},
                                                URL : {FetchURL(ref) : ref \in Refs}]] :
                     \A ref \in Refs : l[ref] # NoEntry => l[ref].URL = FetchURL(ref)}

\* one registry.Fetch call, as Resolve makes it for a module with from:
FetchRef ==
    /\ pc = "fetch"
    /\ idx <= MaxFetches
    /\ \E rawRef \in Refs, noCache \in BOOLEAN, net \in Datas \cup {"error"},
          writable \in BOOLEAN :
        \E o \in {Fetch(rawRef, lock, fs, noCache, net, writable, idx)} :
            /\ lock' = o.lock
            /\ fs' = o.fs
            /\ result' = [mod |-> o.mod, err |-> o.err]
            /\ log' = Append(log, [e |-> "fetch", ref |-> rawRef, noCache |-> noCache,
                                   had |-> lock[rawRef],
                                   cached |-> fs[moduleCachePath(rawRef)].k = "file",
                                   from |-> o.from, read |-> o.read,
                                   ok |-> o.err = NoErr])
    /\ idx' = idx + 1
    /\ UNCHANGED <<args, modIdx, ctx, r, mod, machine, snap, pc, applyErr>>

NextFetch == FetchRef

SpecFetch == InitFetch /\ [][NextFetch]_vars

(***************************************************************************)
(* Reading the log and the file system                                     *)
(***************************************************************************)
LogIdx == DOMAIN log

ItemIdx == DOMAIN mod.Items

\* the action buildAction yields for item j, and the path it writes
Act(j) == buildAction(r, M.Items[j]).action

Target(j) == ResolvedTarget(Act(j))

IsFileItem(j) == Type(M.Items[j]) \in {"file", "directory"}

\* the log entries of item j (0: of the module), in order
EventsOf(j) == SelectSeq(log, LAMBDA e : e.i = j)

KindsOf(j) == [k \in DOMAIN EventsOf(j) |-> EventsOf(j)[k].e]

Has(e, j) == \E k \in LogIdx : log[k].e = e /\ log[k].i = j

\* item j's action Run returned nil
RunSucceeded(j) == \E k \in LogIdx : log[k].e = "run" /\ log[k].i = j /\ log[k].ok

\* applyItem returned an error for item j
Failed(j) == \E k \in LogIdx : log[k].e = "return" /\ log[k].i = j /\ ~log[k].ok

\* applyItem returned nil for item j
Succeeded(j) == \E k \in LogIdx : log[k].e = "return" /\ log[k].i = j /\ log[k].ok

\* the module-level hook was fired (r.runHook called for it)
ModuleHookAt(k, name) == log[k].e = "hook" /\ log[k].i = 0 /\ log[k].a = name

Fired(name) == \E k \in LogIdx : ModuleHookAt(k, name)

\* Restore, if it ran, reported no error
RestoreClean == \A k \in LogIdx : log[k].e = "restore" => log[k].ok

\* path p and everything below it is the same in both file systems
SameTree(a, b, p) == \A q \in Paths : IsPrefix(p, q) => a[q] = b[q]

\* number of successful calls of one kind in the log
Calls(e) == Cardinality({k \in LogIdx : log[k].e = e /\ log[k].ok})

\* item j is the only item that writes its target
OnlyWriter(j) == \A i \in ItemIdx : (i # j /\ IsFileItem(i)) => Target(i) # Target(j)

\* some item's effective direction is sync
AnySync ==
    \E j \in ItemIdx : IsFileItem(j) /\ fileDirection(r, M.Items[j]) = "sync"

(***************************************************************************)
(* C1.  Atomic mode, an earlier push file item succeeded and a later item  *)
(* failed: ApplyModule returns an error and, Restore having reported no    *)
(* error, the destination of every earlier file or directory item is as it *)
(* was before the apply.                                                   *)
(***************************************************************************)
C1_RollbackRestoresDestinations ==
    \A j, k \in ItemIdx :
        (/\ pc = "done" /\ r.Atomic /\ ~r.DryRun
         /\ j < k /\ Failed(k)
         /\ Type(M.Items[j]) = "file" /\ ~M.Items[j].Link
         /\ fileDirection(r, M.Items[j]) = "push" /\ RunSucceeded(j))
        => /\ result # NoErr
           /\ RestoreClean =>
                \A i \in 1..(k - 1) : IsFileItem(i) => SameTree(fs, FS0, Target(i))

(***************************************************************************)
(* C2.  Atomic mode, some item failed: every path the file and directory   *)
(* items wrote (the destination or the repo-side source, whatever the      *)
(* direction) is as it was before the apply when ApplyModule returns.      *)
(***************************************************************************)
C2_RollbackRevertsEveryWrittenPath ==
    (/\ pc = "done" /\ r.Atomic /\ ~r.DryRun
     /\ \E k \in ItemIdx : Failed(k)
     /\ RestoreClean)
    => \A j \in ItemIdx :
          IsFileItem(j) /\ Has("run", j)
          => SameTree(fs, FS0, Target(j)) /\ SameTree(fs, FS0, Act(j).Source)

(***************************************************************************)
(* C3.  The path handed to Snapshot.Record for a file or directory item is *)
(* the ResolvedTarget of the action built for it.                          *)
(***************************************************************************)
C3_RecordedPathIsResolvedTarget ==
    \A k \in LogIdx : log[k].e = "record" => log[k].p = Target(log[k].i)

(***************************************************************************)
(* C4.  A snapshot that was created is discarded exactly once before       *)
(* ApplyModule returns, on every path, and nothing of its temporary        *)
(* directory is left.                                                      *)
(***************************************************************************)
C4_DiscardExactlyOnce ==
    /\ Calls("discard") <= Calls("new")
    /\ pc = "done" =>
          /\ Calls("discard") = Calls("new")
          /\ SameTree(fs, [q \in Paths |-> None], SnapDir)

C4_Witness ==
    /\ pc = "done" /\ Calls("new") = 1 /\ Calls("discard") = 1
    /\ result # NoErr /\ \E k \in LogIdx : ModuleHookAt(k, "after_apply") /\ ~log[k].ok

(***************************************************************************)
(* C5.  When an item fails and Restore itself reports an error,            *)
(* ApplyModule returns the item's error, not the restore error, and        *)
(* Discard is still called, after the Restore.                             *)
(***************************************************************************)
C5_RestoreErrorDoesNotMask ==
    \A k \in LogIdx :
        (pc = "done" /\ log[k].e = "restore" /\ ~log[k].ok)
        => /\ result = applyErr /\ result # NoErr /\ result.kind # "restore"
           /\ \E d \in LogIdx : d > k /\ log[d].e = "discard"
           /\ NodeAt(fs, SnapDir) = None

C5_Witness ==
    /\ pc = "done"
    /\ \E k \in LogIdx : log[k].e = "restore" /\ ~log[k].ok
    /\ \E j \in ItemIdx : Failed(j)
    /\ result.kind = "run"

(***************************************************************************)
(* C6.  The module-level before_apply hook comes before every item; when   *)
(* it fails no item is evaluated and no snapshot is created; the           *)
(* module-level after_apply hook fires only after every item succeeded.    *)
(***************************************************************************)
C6_ApplyHookOrdering ==
    /\ \A k \in LogIdx :
          log[k].i > 0 \/ log[k].e = "new"
          => \E b \in 1..(k - 1) : ModuleHookAt(b, "before_apply") /\ log[b].ok
    /\ (\E b \in LogIdx : ModuleHookAt(b, "before_apply") /\ ~log[b].ok)
          => /\ \A k \in LogIdx : log[k].i = 0 /\ log[k].e # "new"
             /\ ~snap.active /\ fs = FS0
    /\ \A k \in LogIdx :
          ModuleHookAt(k, "after_apply")
          => \A j \in ItemIdx :
                \E n \in 1..(k - 1) : log[n].e = "return" /\ log[n].i = j /\ log[n].ok

C6_Witness ==
    /\ pc = "done"
    /\ Len(mod.Items) = MaxItems
    /\ \E k \in LogIdx : ModuleHookAt(k, "before_apply") /\ log[k].mode = "run"
    /\ \E k \in LogIdx : ModuleHookAt(k, "after_apply") /\ log[k].mode = "run"

(***************************************************************************)
(* C7.  As claimed: in a finished run the module-level before_sync and     *)
(* after_sync hooks fire if and only if some item's effective direction is *)
(* sync, before_sync before the first item and after_sync after the last.  *)
(***************************************************************************)
SyncHookOrder ==
    \A k \in LogIdx :
        /\ ModuleHookAt(k, "before_sync") => \A n \in 1..(k - 1) : log[n].i = 0
        /\ ModuleHookAt(k, "after_sync") =>
              /\ \A n \in LogIdx : n > k => log[n].i = 0
              /\ \A j \in ItemIdx : Has("return", j)

C7_SyncHooksIffSyncItem ==
    pc = "done" =>
        /\ Fired("before_sync") <=> AnySync
        /\ Fired("after_sync") <=> AnySync
        /\ SyncHookOrder

\* ApplyModule got as far as applyItems
ReachedItems ==
    /\ \E b \in LogIdx : ModuleHookAt(b, "before_apply") /\ log[b].ok
    /\ \A k \in LogIdx : log[k].e = "new" => log[k].ok

(***************************************************************************)
(* C7, amended.  before_sync fires if and only if some item's effective    *)
(* direction is sync and the run reached applyItems; after_sync fires if   *)
(* and only if, in addition, the before_sync hook and every item           *)
(* succeeded; the order is as claimed.                                     *)
(***************************************************************************)
C7_SyncHooksAmended ==
    pc = "done" =>
        /\ Fired("before_sync") <=> (AnySync /\ ReachedItems)
        /\ Fired("after_sync") <=>
              /\ AnySync /\ ReachedItems
              /\ \E b \in LogIdx : ModuleHookAt(b, "before_sync") /\ log[b].ok
              /\ \A j \in ItemIdx : Succeeded(j)
        /\ SyncHookOrder

C7_Witness ==
    /\ pc = "done"
    /\ r.DirectionOverride = "sync"
    /\ \E j \in ItemIdx : M.Items[j].Direction = "" /\ Type(M.Items[j]) = "directory"
    /\ Fired("before_sync") /\ Fired("after_sync")
    /\ Len(mod.Items) = MaxItems

(***************************************************************************)
(* C8.  An item whose skip_if command exits zero is skipped entirely: its  *)
(* whole trace is build, skip_if evaluation, one "skipped" audit entry and *)
(* a nil return; no idempotency check, hook, Record or Run; the file       *)
(* system and the snapshot stay as they were.                              *)
(***************************************************************************)
SkippedBySkipIf(j) ==
    \E k \in LogIdx : log[k].e = "eval" /\ log[k].i = j /\ log[k].a = "zero"

C8_SkipIfSkipsEverything ==
    \A j \in ItemIdx :
        SkippedBySkipIf(j)
        => /\ KindsOf(j) = <<"build", "eval", "audit", "return">>
           /\ EventsOf(j)[3].a = "skipped"
           /\ EventsOf(j)[4].ok

C8_Witness ==
    /\ pc = "done" /\ ~r.DryRun
    /\ \E j \in ItemIdx : SkippedBySkipIf(j) /\ M.Items[j].Hooks = AllHooks
    /\ result = NoErr

(***************************************************************************)
(* C9.  An idempotent action that reports it is already applied is not     *)
(* run: after the check come exactly one "skipped" audit entry and a nil   *)
(* return; no hook, Record or Run.                                         *)
(***************************************************************************)
AlreadyApplied(j) ==
    \E k \in LogIdx : log[k].e = "isapplied" /\ log[k].i = j /\ log[k].ok

C9_AlreadyAppliedSkips ==
    \A j \in ItemIdx :
        AlreadyApplied(j)
        => LET evs == SelectSeq(EventsOf(j), LAMBDA e : e.e # "eval")
           IN  /\ [k \in DOMAIN evs |-> evs[k].e] = <<"build", "isapplied", "audit", "return">>
               /\ evs[3].a = "skipped"
               /\ evs[4].ok

C9_Witness ==
    /\ pc = "done" /\ ~r.DryRun /\ r.Atomic
    /\ \E j \in ItemIdx : AlreadyApplied(j) /\ Act(j).kind = "package" /\ Has("eval", j)

(***************************************************************************)
(* C10.  In dry-run, on a module whose items all have a recognised kind,   *)
(* nothing is mutated, no snapshot is created, no hook or verify command   *)
(* is executed, every Run gets dryRun=true, and ApplyModule returns nil.   *)
(***************************************************************************)
WellFormed == \A j \in ItemIdx : Type(M.Items[j]) # "unknown"

C10_DryRunMutatesNothingReturnsNil ==
    (r.DryRun /\ WellFormed)
    => /\ fs = FS0 /\ ~snap.active
       /\ \A k \in LogIdx :
             /\ log[k].e \notin {"new", "record", "restore", "discard", "verify"}
             /\ log[k].e = "hook" => log[k].mode # "run"
             /\ log[k].e = "run" => log[k].a = "dry"
       /\ pc = "done" => result = NoErr

(***************************************************************************)
(* C11.  Outside dry-run, when an item's Run succeeded and its verify      *)
(* command exits non-zero: applyItem returns an error right after the      *)
(* verify, no after hook of the item fires, no later item is evaluated,    *)
(* ApplyModule returns the verify error and, in atomic mode, Restore and   *)
(* then Discard are called, a plain push destination written earlier being *)
(* back in its state before the apply.                                     *)
(***************************************************************************)
VerifyFailedAt(k) == log[k].e = "verify" /\ ~log[k].ok

C11_VerifyFailureIsItemFailure ==
    \A k \in LogIdx :
        VerifyFailedAt(k)
        => /\ ~r.DryRun /\ RunSucceeded(log[k].i)
           /\ k < Len(log) /\ log[k + 1].e = "return" /\ log[k + 1].i = log[k].i
           /\ ~log[k + 1].ok /\ log[k + 1].a = "verify"
           /\ \A n \in LogIdx : n > k + 1 => log[n].i = 0
           /\ pc = "done" =>
                 /\ result = Err("verify")
                 /\ ~(\E n \in LogIdx : ModuleHookAt(n, "after_sync") \/ ModuleHookAt(n, "after_apply"))
                 /\ r.Atomic =>
                       /\ \E n, d \in LogIdx : n < d /\ log[n].e = "restore" /\ log[d].e = "discard"
                       /\ \A i \in 1..(log[k].i - 1) :
                             (/\ mod.Items[i] = "push"
                              /\ fileDirection(r, M.Items[i]) = "push"
                              /\ OnlyWriter(i) /\ RestoreClean)
                             => SameTree(fs, FS0, Target(i))

C11_Witness ==
    /\ pc = "done" /\ r.Atomic /\ machine = "old"
    /\ Len(mod.Items) = 2 /\ mod.Items[1] = "push" /\ RunSucceeded(1)
    /\ \E k \in LogIdx : VerifyFailedAt(k) /\ log[k].i = 2
    /\ fs = FS0

(***************************************************************************)
(* C12.  When an action's Run returns an error, the item's trace ends      *)
(* with the Run, exactly one audit entry, of outcome "failure", and the    *)
(* error return: no verify, no after hook.  The audit entries of a module  *)
(* appear in declared item order; a module of two run items, the first     *)
(* succeeding and the second failing, has exactly the entries "success",   *)
(* "failure".                                                              *)
(***************************************************************************)
AuditLog == SelectSeq(log, LAMBDA e : e.e = "audit")

RunFailedAt(k) == log[k].e = "run" /\ ~log[k].ok

C12_RunFailureAuditedOnce ==
    /\ \A k \in LogIdx :
          RunFailedAt(k)
          => /\ k + 2 <= Len(log)
             /\ log[k + 1].e = "audit" /\ log[k + 1].i = log[k].i /\ log[k + 1].a = "failure"
             /\ log[k + 2].e = "return" /\ log[k + 2].i = log[k].i /\ ~log[k + 2].ok
             /\ \A n \in LogIdx : n > k + 2 => log[n].i = 0
             /\ Cardinality({n \in LogIdx : log[n].e = "audit" /\ log[n].i = log[k].i}) = 1
    /\ \A a, b \in DOMAIN AuditLog : a < b => AuditLog[a].i < AuditLog[b].i
    /\ (/\ pc = "done" /\ mod.Items = <<"run", "run">>
        /\ RunSucceeded(1) /\ \E k \in LogIdx : RunFailedAt(k) /\ log[k].i = 2)
       => [k \in DOMAIN AuditLog |-> AuditLog[k].a] = <<"success", "failure">>

C12_Witness ==
    /\ pc = "done" /\ r.Atomic /\ ~r.DryRun /\ mod.Items = <<"run", "run">>
    /\ RunSucceeded(1) /\ \E k \in LogIdx : RunFailedAt(k) /\ log[k].i = 2
    /\ result = Err("run") /\ fs = FS0

(***************************************************************************)
(* C13.  As claimed: every evaluation of an item by applyItem emits        *)
(* exactly one audit entry, on every branch, except the silent skip of an  *)
(* item that is not applicable on this OS, which emits none.               *)
(***************************************************************************)
Audits(j) == Cardinality({k \in LogIdx : log[k].e = "audit" /\ log[k].i = j})

\* every audit entry of item j has outcome a
AuditsSay(j, a) == \A k \in LogIdx : (log[k].e = "audit" /\ log[k].i = j) => log[k].a = a

\* buildAction reported "not applicable on this OS" for item j
SilentSkip(j) == buildAction(r, M.Items[j]).skip

C13_OneAuditPerEvaluation ==
    \A j \in ItemIdx :
        Has("return", j) => Audits(j) = (IF SilentSkip(j) THEN 0 ELSE 1)

(***************************************************************************)
(* C13, amended.  An evaluation emits at most one audit entry: exactly one *)
(* when skip_if exited zero ("skipped"), when the action was already       *)
(* applied ("skipped") or when Run was called ("success" or "failure", a   *)
(* later verify or after-hook failure adding none); none when applyItem    *)
(* returned before that: silent OS skip, build error, skip_if evaluation   *)
(* error, before-hook failure, snapshot Record error.                      *)
(***************************************************************************)
C13_AuditAmended ==
    \A j \in ItemIdx :
        Has("return", j)
        => /\ Audits(j) = (IF SkippedBySkipIf(j) \/ AlreadyApplied(j) \/ Has("run", j)
                           THEN 1 ELSE 0)
           /\ AuditsSay(j, IF ~Has("run", j) THEN "skipped"
                            ELSE IF RunSucceeded(j) THEN "success" ELSE "failure")
           /\ (\/ SilentSkip(j)
               \/ \E k \in LogIdx :
                     /\ log[k].i = j /\ ~log[k].ok
                     /\ \/ log[k].e \in {"build", "eval", "record"}
                        \/ log[k].e = "hook" /\ log[k].a \in {"before_apply", "before_sync"})
              => Audits(j) = 0

C13_Witness ==
    /\ pc = "done" /\ Len(mod.Items) = 2
    /\ AlreadyApplied(1) /\ Audits(1) = 1
    /\ \E k \in LogIdx : log[k].e = "record" /\ log[k].i = 2 /\ ~log[k].ok
    /\ Audits(2) = 0

(***************************************************************************)
(* C14.  Items are evaluated in declared order, each at most once, one     *)
(* item's whole sequence of steps before the next item's first step; an    *)
(* item is evaluated only after every earlier item returned nil, so after  *)
(* the first item error no later item is evaluated.                        *)
(***************************************************************************)
CountOf(e, j) == Cardinality({k \in LogIdx : log[k].e = e /\ log[k].i = j})

C14_ItemsSequentialInOrder ==
    /\ \A k \in LogIdx :
          log[k].e = "build" => \A n \in 1..(k - 1) : log[n].i < log[k].i
    /\ \A j \in ItemIdx :
          /\ CountOf("build", j) <= 1 /\ CountOf("run", j) <= 1 /\ CountOf("return", j) <= 1
          /\ Has("build", j) <=> Has("return", j)
          /\ Has("build", j) <=> j < idx
          /\ Has("build", j) => \A i \in 1..(j - 1) : Succeeded(i)
          /\ Failed(j) => pc \in {"finish", "done"} /\ idx = j + 1
    /\ \A k \in LogIdx : log[k].i > 0 => log[k].i \in ItemIdx
    /\ \A k \in LogIdx :
          (log[k].i > 0 /\ log[k].e # "build")
          => k > 1 /\ log[k - 1].i = log[k].i /\ log[k - 1].e # "return"

C14_Witness ==
    /\ pc = "done" /\ Len(mod.Items) = MaxItems
    /\ \A j \in ItemIdx : Succeeded(j) /\ Has("run", j) /\ CountOf("hook", j) >= 2
    /\ mod.Items[1] # mod.Items[2]

(***************************************************************************)
(* C17.  Once ApplyModule is past its snapshot step, snapshot.New has been *)
(* called if and only if Atomic is set, DryRun is unset and the            *)
(* module-level before_apply hook succeeded (which it follows).  If New    *)
(* fails, ApplyModule returns an error, no item is evaluated and nothing   *)
(* is touched.  Without a snapshot Record, Restore and Discard are never   *)
(* called, and what a successful push wrote stays when a later item fails. *)
(***************************************************************************)
NewCalled == \E k \in LogIdx : log[k].e = "new"

BeforeApplyPassed == \E b \in LogIdx : ModuleHookAt(b, "before_apply") /\ log[b].ok

C17_SnapshotIffAtomicNotDryRun ==
    /\ pc \notin {"before_apply", "snapshot"}
          => (NewCalled <=> (r.Atomic /\ ~r.DryRun /\ BeforeApplyPassed))
    /\ \A k \in LogIdx :
          log[k].e = "new"
          => /\ \E b \in 1..(k - 1) : ModuleHookAt(b, "before_apply") /\ log[b].ok
             /\ \A n \in 1..(k - 1) : log[n].i = 0
             /\ ~log[k].ok =>
                   /\ pc = "done" /\ result = Err("create snapshot")
                   /\ k = Len(log) /\ fs = FS0 /\ ~snap.active
    /\ Calls("new") = 0
          => /\ ~snap.active
             /\ \A k \in LogIdx : log[k].e \notin {"record", "restore", "discard"}
             /\ \A j \in ItemIdx :
                   (/\ mod.Items[j] = "push" /\ fileDirection(r, M.Items[j]) = "push"
                    /\ RunSucceeded(j) /\ ~r.DryRun /\ OnlyWriter(j))
                   => NodeAt(fs, Target(j)) = FileN("new")

C17_Witness ==
    /\ pc = "done" /\ ~r.Atomic /\ ~r.DryRun /\ machine = "old"
    /\ Len(mod.Items) = 2 /\ mod.Items[1] = "push" /\ RunSucceeded(1) /\ Failed(2)
    /\ result # NoErr /\ NodeAt(fs, Target(1)) = FileN("new")

(***************************************************************************)
(* The snapshot's round trips, under SpecSnap.                             *)
(***************************************************************************)
\* Restore has run and reported no error
Restored == pc = "s_restored" /\ result = NoErr

\* the paths Record found existing, as files and as directories
SavedFiles == {p \in SavedKeys(snap) : FS0[p].k = "file"}
SavedDirs == {p \in SavedKeys(snap) : FS0[p].k = "dir"}

\* C18: a file that existed when it was recorded is, after any overwrite,
\* deletion or replacement by a symbolic link and a Restore that reported no
\* error, a regular file again with the content it had at Record time.
C18_FileRoundTrip ==
    Restored => \A p \in SavedFiles : fs[p] = FS0[p]

\* C20: a directory that existed when it was recorded has, after any additions,
\* deletions and modifications inside it (or its removal) and a Restore that
\* reported no error, the tree it had at Record time.
C20_DirectoryRoundTrip ==
    Restored => \A D \in SavedDirs : SameTree(fs, FS0, D)

\* the paths Restore's os.RemoveAll was refused on
Refused == {log[k].p : k \in {n \in LogIdx : log[n].e = "remove" /\ ~log[n].ok}}

\* C19: a path that did not exist when it was recorded and was created
\* afterwards, as a file or as a directory tree, does not exist after Restore,
\* and nothing exists below it, wherever the operating system let Restore's
\* best-effort removal through.
C19_CreatedPathRemoved ==
    pc = "s_restored" =>
        \A p \in CreatedSet(snap) \ Refused : \A q \in Paths : IsPrefix(p, q) => fs[q] = None

\* ~/cfg/a.lua did not exist at Record; the push that created it also made its
\* directory ~/cfg, which is still there after Restore removed the file.
C19_Witness ==
    /\ Restored
    /\ <<"home", "cfg", "a.lua">> \in CreatedSet(snap)
    /\ FS0[<<"home", "cfg">>] = None
    /\ fs[<<"home", "cfg">>] = DirN
    /\ fs[<<"home", "cfg", "a.lua">>] = None

\* how many saved-or-created entries the snapshot s holds for the path p
Entries(s, p) ==
    Cardinality({k \in 1..Len(s.saved) : s.saved[k][1] = p})
        + Cardinality({k \in 1..Len(s.created) : s.created[k] = p})

\* the path of the last Record call
LastRecorded == log[Len(log)].p

\* C21: a second Record(p), made after p was overwritten, replaced by a link,
\* created or deleted, returns nil and leaves the saved map, the created list
\* and every file of the backup as they were; p keeps exactly one entry.
C21_RecordIdempotent ==
    [][(pc = "s_mutate" /\ pc' = "s_again") =>
          /\ snap' = snap
          /\ fs' = fs
          /\ log'[Len(log')].ok
          /\ Entries(snap', log'[Len(log')].p) = 1]_vars

\* ~/b.lua was saved as a file, then deleted, then recorded again
C21_Witness ==
    /\ pc = "s_again"
    /\ LastRecorded = <<"home", "b.lua">>
    /\ LastRecorded \in SavedKeys(snap)
    /\ FS0[LastRecorded].k = "file"
    /\ fs[LastRecorded] = None

\* C22: whatever was recorded, changed and recorded again, no path is both a
\* key of saved and an element of created, and created holds no path twice.
C22_SavedCreatedDisjoint ==
    /\ SavedKeys(snap) \cap CreatedSet(snap) = {}
    /\ Cardinality(CreatedSet(snap)) = Len(snap.created)

\* ~/cfg/a.lua did not exist at its first Record, was created by a push, and
\* exists at its second Record
C22_Witness ==
    /\ pc = "s_again"
    /\ LastRecorded = <<"home", "cfg", "a.lua">>
    /\ LastRecorded \in CreatedSet(snap)
    /\ fs[LastRecorded].k = "file"
    /\ Len(snap.saved) + Len(snap.created) >= 2

\* the log positions of Restore's steps of kind e, and those that failed
Tried(e) == {k \in LogIdx : log[k].e = e}
FailedSaved == {k \in Tried("restore_one") : ~log[k].ok}

ConfigLen == Len(r.Config.Modules)

TagsMatch(j) == matchesTags(r, ConfigModule(r.Config.Modules[j]))

\* ApplyModule was called for the j-th module of the configuration
Started(j) == \E k \in LogIdx : log[k].e = "module" /\ log[k].i = j

\* ... and returned, without or with an error
Completed(j) == \E k \in LogIdx : log[k].e = "module_end" /\ log[k].i = j /\ log[k].ok

FailedModule(j) == \E k \in LogIdx : log[k].e = "module_end" /\ log[k].i = j /\ ~log[k].ok

\* what the single item of a catalogue module writes
Product(n) ==
    CASE n = "files" -> <<"home", "cfg", "a.lua">>
      [] n = "ext" -> <<"home", "b.lua">>
      [] n = "dirs" -> <<"home", "cfg", "nvim", "init">>
      [] OTHER -> <<>>

\* C15: ApplyAll calls ApplyModule for the tag-matching modules only, in
\* declaration order and each after all earlier matching ones returned nil; it
\* returns the first module error (nil when there is none, every matching
\* module then being applied), and what the modules that completed wrote is
\* still in place when it returns.
C15_ApplyAllStopsAtFirstError ==
    /\ \A k1, k2 \in LogIdx :
          log[k1].e = "module" /\ log[k2].e = "module" /\ k1 < k2 => log[k1].i < log[k2].i
    /\ \A j \in 1..ConfigLen :
          Started(j) => /\ TagsMatch(j)
                        /\ \A i \in 1..(j - 1) : TagsMatch(i) => Completed(i)
    /\ pc = "returned" =>
          /\ result # NoErr <=> \E j \in 1..ConfigLen : FailedModule(j)
          /\ \A k \in LogIdx : log[k].e = "module_end" /\ ~log[k].ok => result.kind = log[k].a
          /\ result = NoErr => \A j \in 1..ConfigLen : TagsMatch(j) => Completed(j)
          /\ \A j \in 1..ConfigLen :
                Completed(j) /\ Product(r.Config.Modules[j]) # <<>>
                    => fs[Product(r.Config.Modules[j])] = FileN("new")

\* an atomic run of <<files, tools, dirs>>: files completed, tools failed and
\* was rolled back, dirs matches the machine's tags and was never started
C15_Witness ==
    /\ pc = "returned"
    /\ r.Atomic
    /\ r.Config.Modules = <<"files", "tools", "dirs">>
    /\ Completed(1) /\ FailedModule(2)
    /\ TagsMatch(3) /\ ~Started(3)
    /\ result # NoErr
    /\ machine = "old" /\ fs[<<"home", "cfg", "a.lua">>] = FileN("new")
    /\ fs[<<"home", "cfg", "nvim", "init">>] = FileN("old")

(***************************************************************************)
(* Cancellation, under SpecCancel.                                         *)
(***************************************************************************)
\* C16: once the context was cancelled at a suspension point, the applyItem
\* call that was in flight returns an error, the action of no later item is
\* run, and ApplyModule returns a non-nil error.
C16_CancellationIsItemFailure ==
    \A k \in LogIdx :
        log[k].e = "cancel" =>
            /\ \A j \in LogIdx :
                  j > k /\ log[j].e = "return" /\ log[j].i = log[k].i => ~log[j].ok
            /\ \A j \in LogIdx :
                  j > k /\ log[j].e = "run" /\ log[j].a = "real" => log[j].i = log[k].i
            /\ pc = "done" => result # NoErr

(***************************************************************************)
(* VerifyModule, under SpecVerify.                                         *)
(***************************************************************************)
\* the item at position i has a verify command that VerifyModule gets to run
VerifyRuns(i) ==
    /\ M.Items[i].Verify # ""
    /\ ~buildAction(r, M.Items[i]).skip
    /\ ~buildAction(r, M.Items[i]).err

\* C24: VerifyModule returns a nil error, and allPassed is false exactly when
\* the verify command of some item failed; an item without a verify command,
\* one that is not for this OS and one whose action cannot be built have no
\* command run and no audit entry, so they cannot make it false.
C24_VerifyAllPassed ==
    pc = "verified" =>
        /\ result.err = NoErr
        /\ result.allPassed = (\A k \in LogIdx : log[k].e = "verify" => log[k].ok)
        /\ \A k \in LogIdx : log[k].e \in {"verify", "audit"} => VerifyRuns(log[k].i)
        /\ \A i \in ItemIdx : VerifyRuns(i) => \E k \in LogIdx : log[k].e = "verify" /\ log[k].i = i

\* an item of no known type with a verify command, then a file whose verify
\* command fails: only the second one counts
C24_Witness ==
    /\ pc = "verified"
    /\ mod.Items = <<"unknownv", "pushv">>
    /\ ~result.allPassed
    /\ \E k \in LogIdx : log[k].e = "verify" /\ log[k].i = 2 /\ ~log[k].ok

\* C25: VerifyModule builds the action and runs the verify command, nothing
\* else: no Run, no hook, no skip_if, no idempotency check, no snapshot and no
\* change of the file system, in a dry run or not.  Each verify command it
\* runs is followed by one audit entry of command "verify" whose outcome is
\* "success" or "failure" as the command went, and there is no other entry.
C25_VerifyReadOnly ==
    /\ snap = NoSnap
    /\ fs = FS0
    /\ \A k \in LogIdx :
          /\ log[k].e \in {"noverify", "build", "verify", "audit"}
          /\ log[k].e = "verify" =>
                /\ k < Len(log)
                /\ log[k + 1].e = "audit" /\ log[k + 1].i = log[k].i
                /\ log[k + 1].mode = "verify"
                /\ log[k + 1].a = IF log[k].ok THEN "success" ELSE "failure"
          /\ log[k].e = "audit" => k > 1 /\ log[k - 1].e = "verify"

\* a run item with skip_if, hooks and a verify command, in a module with
\* hooks, under an atomic runner that is not a dry run; the command failed
C25_Witness ==
    /\ pc = "verified"
    /\ mod.Items = <<"run">> /\ mod.Hooks = AllHooks
    /\ r.Atomic /\ ~r.DryRun
    /\ Len(log) = 3
    /\ log[2].e = "verify" /\ ~log[2].ok
    /\ log[3].e = "audit" /\ log[3].a = "failure"

(***************************************************************************)
(* The commands and the machine's tags, under SpecCmd.                     *)
(***************************************************************************)
\* C26: ApplyModule is called for a module only if the module's only_tags and
\* exclude_tags match the machine's tags, whether the command had no
\* arguments or named the module.
C26_TagMismatchNeverApplied ==
    \A k \in LogIdx : log[k].e = "module" => matchesTags(r, ConfigModule(log[k].a))

\* the tags of a list
TagSet(tagList) == {tagList[k] : k \in 1..Len(tagList)}

\* C27: in ApplyAll, where every module of the configuration goes through
\* tags.Matches, a module is handed to ApplyModule exactly when none of its
\* exclude tags is a tag of the machine and its only list is empty or has a
\* tag of the machine; it is passed over in every other case, so a matching
\* exclude tag wins over a matching only tag.
C27_MatchesCharacterised ==
    \A k \in LogIdx :
        (args = <<>> /\ log[k].e \in {"tagskip", "module"}) =>
            (log[k].e = "module") =
                (/\ TagSet(ConfigModule(log[k].a).ExcludeTags) \cap TagSet(r.MachineTags) = {}
                 /\ \/ ConfigModule(log[k].a).OnlyTags = <<>>
                    \/ TagSet(ConfigModule(log[k].a).OnlyTags) \cap TagSet(r.MachineTags) # {})

\* the machine is tagged work and home; the module with only_tags [desktop,
\* work] and exclude_tags [home] was passed over, after one with only_tags
\* [work] was applied
C27_Witness ==
    /\ args = <<>>
    /\ r.MachineTags = <<"work", "home">>
    /\ \E k \in LogIdx : log[k].e = "module" /\ log[k].a = "ext"
    /\ \E k \in LogIdx : log[k].e = "tagskip" /\ log[k].a = "both"

(***************************************************************************)
(* Items that are not for this OS, directions and the audit log, under     *)
(* SpecBuild.                                                              *)
(***************************************************************************)
\* the item declares nothing for the runner's OS
NotForThisOS(item) ==
    \/ Type(item) = "package" /\ PackageManagerOS(item.Via) \notin {"", r.OS}
    \/ Type(item) \in {"file", "directory"} /\ ForOS(item.Destination, r.OS) = NoPath
    \/ Type(item) = "binary" /\ ForOS(item.Source, r.OS) = NoPath

\* C28: for an item that is not for this OS all applyItem does is build and
\* return nil: skip is true with no error, there is no check, hook, Run or
\* audit entry, and a module of such items returns nil once its snapshot
\* directory could be made.  A package whose manager is bound to no OS is
\* built and goes on to its idempotency check.
C28_OSInapplicableSkipped ==
    /\ \A j \in ItemIdx :
          (NotForThisOS(M.Items[j]) /\ Has("return", j)) =>
              /\ buildAction(r, M.Items[j]).skip /\ ~buildAction(r, M.Items[j]).err
              /\ KindsOf(j) = <<"build", "return">>
              /\ Succeeded(j)
    /\ \A j \in ItemIdx :
          (Type(M.Items[j]) = "package" /\ PackageManagerOS(M.Items[j].Via) = ""
              /\ Has("return", j)) =>
              ~buildAction(r, M.Items[j]).skip /\ Has("isapplied", j)
    /\ (pc = "done" /\ ReachedItems /\ \A j \in ItemIdx : NotForThisOS(M.Items[j]))
          => result = NoErr

\* a file with a destination for macOS only, then a package of a manager
\* bound to no OS, on linux: the first is passed over and returns nil, the
\* second is built, checked and run
C28_Witness ==
    /\ pc = "done"
    /\ mod.Items = <<"macfile", "custom">>
    /\ KindsOf(1) = <<"build", "return">>
    /\ Succeeded(1)
    /\ Has("isapplied", 2) /\ Has("run", 2)

\* C29: the action applyItem built for a file or directory item has the
\* direction of the command's override when there is one and the item is not
\* a link item, else the item's declared direction, push when none is
\* declared; for a link item it is push whatever the override and the
\* declared direction.
C29_EffectiveDirection ==
    \A j \in ItemIdx :
        (Type(M.Items[j]) \in {"file", "directory"} /\ ~buildAction(r, M.Items[j]).skip
            /\ Has("build", j)) =>
            Act(j).Direction =
                IF M.Items[j].Link THEN "push"
                ELSE IF r.DirectionOverride # "" THEN r.DirectionOverride
                ELSE IF M.Items[j].Direction \in {"pull", "sync"} THEN M.Items[j].Direction
                ELSE "push"

\* what applyItem returns and does, its audit entries left out
Visible(o) ==
    [err |-> o.err, snap |-> o.snap, fs |-> o.fs,
     ev |-> SelectSeq(o.ev, LAMBDA e : e.e # "audit")]

\* C30: for the item about to be applied, whatever its checks, hooks and Run
\* do, applyItem returns the same error, leaves the same file system and
\* snapshot and goes through the same hooks, checks, Record and Run when
\* audit.Log cannot write its entry as when it can.
C30_AuditFailureChangesNothing ==
    (pc = "items" /\ idx <= Len(mod.Items)) =>
        \A env \in Envs(r, M.Items[idx]) :
            Visible(applyItem(r, M.Items[idx], idx, snap, fs, env))
                = Visible(applyItem(r, M.Items[idx], idx, snap, fs, [env EXCEPT !.audit = FALSE]))

\* no audit entry of the first item could be written; the item returned nil,
\* the second item was run and ApplyModule returned nil
C30_Witness ==
    /\ pc = "done"
    /\ mod.Items = <<"push", "pull">>
    /\ ~r.DryRun
    /\ \E k \in LogIdx : log[k].e = "audit" /\ log[k].i = 1 /\ ~log[k].ok /\ log[k].a = "success"
    /\ Succeeded(1)
    /\ RunSucceeded(2)
    /\ result = NoErr

(***************************************************************************)
(* C32.  The steps applyItem takes for one item, in the order they are     *)
(* taken.                                                                  *)
(***************************************************************************)
\* the place of a step in applyItem
StepRank(ev) ==
    CASE ev.e = "build" -> 0
      [] ev.e = "eval" -> 1
      [] ev.e = "isapplied" -> 2
      [] ev.e = "hook" /\ ev.a = "before_apply" -> 3
      [] ev.e = "hook" /\ ev.a = "before_sync" -> 4
      [] ev.e = "record" -> 5
      [] ev.e = "run" -> 6
      [] ev.e = "audit" -> 7
      [] ev.e = "verify" -> 8
      [] ev.e = "hook" /\ ev.a = "after_sync" -> 9
      [] ev.e = "hook" /\ ev.a = "after_apply" -> 10
      [] OTHER -> 11

\* a step of an item that returned an error
FailedStep(k) ==
    /\ log[k].i > 0
    /\ ~log[k].ok
    /\ \/ log[k].e \in {"build", "hook", "record", "run", "verify"}
       \/ log[k].e = "eval" /\ log[k].a = "error"

\* the entry after k is the return of the same item
ReturnsAfter(k) ==
    k < Len(log) /\ log[k + 1].e = "return" /\ log[k + 1].i = log[k].i

\* C32 as stated: the steps of an item come in the order skip_if,
\* idempotency check, before_apply hook, before_sync hook, Record, Run,
\* audit entry, verify, after_sync hook, after_apply hook, and a failure at
\* any step prevents every later step: the item returns right after it.
C32_FailureStopsEveryLaterStep ==
    \A k \in LogIdx :
        /\ (log[k].i > 0 /\ log[k].e # "return")
           => /\ k < Len(log) /\ log[k + 1].i = log[k].i
              /\ StepRank(log[k]) < StepRank(log[k + 1])
        /\ FailedStep(k) => ReturnsAfter(k)

\* C32, amended: the steps of an item come in that order, the Record of a
\* file or directory item under a snapshot comes right before its Run, and
\* a failed step is the item's last, except that a failed Run is still
\* followed by its audit entry, of outcome "failure", and by nothing else.
C32_StepOrder ==
    \A k \in LogIdx :
        /\ (log[k].i > 0 /\ log[k].e # "return")
           => /\ k < Len(log) /\ log[k + 1].i = log[k].i
              /\ StepRank(log[k]) < StepRank(log[k + 1])
        /\ FailedStep(k)
           => IF log[k].e = "run"
              THEN /\ k + 1 < Len(log) /\ log[k + 1].e = "audit" /\ log[k + 1].a = "failure"
                   /\ log[k + 1].i = log[k].i /\ ReturnsAfter(k + 1)
              ELSE ReturnsAfter(k)
        /\ (log[k].e = "run" /\ IsFileItem(log[k].i) /\ Calls("new") = 1)
           => k > 1 /\ log[k - 1].e = "record" /\ log[k - 1].i = log[k].i /\ log[k - 1].ok

\* a sync file item with skip_if, hooks and verify went through every step
\* under a snapshot, and the Run of the item after it failed
C32_Witness ==
    /\ mod.Items = <<"full", "custom">>
    /\ ~r.DryRun
    /\ KindsOf(1) = <<"build", "eval", "isapplied", "hook", "hook", "record", "run", "audit",
                      "verify", "hook", "hook", "return">>
    /\ Succeeded(1)
    /\ \E k \in LogIdx : log[k].e = "run" /\ log[k].i = 2 /\ ~log[k].ok
    /\ Failed(2)

(***************************************************************************)
(* C33.  Within one ApplyModule, Restore is called at most once, and only  *)
(* when a snapshot exists and applying the items (the module-level         *)
(* before_sync and after_sync hooks included) returned an error; it is     *)
(* called before Discard; on the success path it is never called.          *)
(***************************************************************************)
RestoreAt(k) == log[k].e = "restore"

\* applyItems returned an error before entry k: an item or a module-level
\* sync hook failed
ApplyItemsFailedBefore(k) ==
    \E n \in 1..(k - 1) :
        \/ log[n].e = "return" /\ ~log[n].ok
        \/ (ModuleHookAt(n, "before_sync") \/ ModuleHookAt(n, "after_sync")) /\ ~log[n].ok

C33_RestoreOnlyOnFailure ==
    /\ Cardinality({k \in LogIdx : RestoreAt(k)}) <= 1
    /\ \A k \in LogIdx :
          RestoreAt(k)
          => /\ Calls("new") = 1
             /\ applyErr # NoErr
             /\ ApplyItemsFailedBefore(k)
             /\ \A n \in 1..(k - 1) : log[n].e # "discard"
             /\ k < Len(log) /\ log[k + 1].e = "discard"
    /\ (pc \in {"after_apply", "done"} /\ applyErr = NoErr) => \A k \in LogIdx : ~RestoreAt(k)

\* every item succeeded, the module's after_sync hook failed, and the one
\* Restore came before the Discard
C33_Witness ==
    /\ pc = "done"
    /\ \A j \in ItemIdx : Succeeded(j)
    /\ \E k \in LogIdx : ModuleHookAt(k, "after_sync") /\ ~log[k].ok
    /\ \E k \in LogIdx : RestoreAt(k) /\ log[k].ok
    /\ result # NoErr

(***************************************************************************)
(* C34.  The module-level after_apply hook runs only after the snapshot    *)
(* has been discarded.  When it fails, ApplyModule returns an error, no    *)
(* Restore is made and what the items wrote stays written.                 *)
(***************************************************************************)
C34_AfterApplyHookOutsideRollback ==
    \A k \in LogIdx :
        ModuleHookAt(k, "after_apply")
        => /\ Calls("new") = 1 => \E d \in 1..(k - 1) : log[d].e = "discard"
           /\ NodeAt(fs, SnapDir) = None
           /\ \A n \in LogIdx : log[n].e # "restore"
           /\ ~log[k].ok
              => /\ pc = "done" /\ result # NoErr /\ k = Len(log)
                 /\ \A j \in ItemIdx :
                       (/\ mod.Items[j] = "push" /\ fileDirection(r, M.Items[j]) = "push"
                        /\ RunSucceeded(j) /\ ~r.DryRun /\ OnlyWriter(j))
                       => NodeAt(fs, Target(j)) = FileN("new")

\* atomic mode: the push item overwrote an existing destination, the
\* snapshot was discarded, then the module's after_apply hook failed
C34_Witness ==
    /\ pc = "done" /\ r.Atomic /\ ~r.DryRun /\ machine = "old"
    /\ mod.Items = <<"push">> /\ RunSucceeded(1) /\ Has("record", 1)
    /\ Calls("new") = 1 /\ Calls("discard") = 1
    /\ \E k \in LogIdx : ModuleHookAt(k, "after_apply") /\ ~log[k].ok
    /\ result # NoErr
    /\ NodeAt(fs, Target(1)) = FileN("new") /\ NodeAt(FS0, Target(1)) # FileN("new")

(***************************************************************************)
(* C35.  A build error, a skip_if evaluation failure, an item hook         *)
(* failure, a Record failure, a Run failure or a verify failure makes      *)
(* applyItem return an error of that kind; no later item is evaluated,     *)
(* ApplyModule returns that error, which names the module, and with a      *)
(* snapshot in place (Atomic set, DryRun unset) Restore is called.  The    *)
(* idempotency-check error of runner.go:238-240 has no case here: no       *)
(* IsApplied of the repository returns an error.                           *)
(***************************************************************************)
\* the error applyItem returns for a failed step
ErrKindOf(ev) ==
    CASE ev.e = "eval" -> "skip_if"
      [] ev.e = "record" -> "snapshot"
      [] OTHER -> ev.e

C40_DryRunStillChecks ==
    r.DryRun
    => /\ \A k \in LogIdx :
             /\ log[k].e \notin {"verify", "new", "record", "restore", "discard"}
             /\ log[k].e = "hook" => log[k].mode \in {"none", "dry"} /\ log[k].ok
             /\ log[k].e = "run" => log[k].a = "dry"
       /\ ~snap.active
       /\ \A j \in ItemIdx :
             (Has("return", j) /\ ~NotForThisOS(M.Items[j]) /\ Type(M.Items[j]) # "unknown")
             => /\ M.Items[j].SkipIf # "" => Has("eval", j)
                /\ (\E k \in LogIdx : log[k].e = "eval" /\ log[k].i = j /\ log[k].a = "zero")
                   => ~Has("isapplied", j) /\ ~Has("run", j) /\ Succeeded(j)
                /\ (/\ ImplementsIdempotent(Act(j))
                    /\ \A k \in LogIdx :
                          (log[k].e = "eval" /\ log[k].i = j) => log[k].a = "nonzero")
                   => Has("isapplied", j)
                /\ (\E k \in LogIdx : log[k].e = "isapplied" /\ log[k].i = j /\ log[k].ok)
                   => ~Has("run", j) /\ Succeeded(j)

\* dry-run with Atomic set: skip_if of the first item was evaluated and
\* let it through, its hooks were printed only, its Run was a dry one and
\* its verify command was left out; the package of the second item was
\* found installed
C40_Witness ==
    /\ pc = "done" /\ r.DryRun /\ r.Atomic
    /\ mod.Items = <<"run", "apt">>
    /\ \E k \in LogIdx : log[k].e = "eval" /\ log[k].i = 1 /\ log[k].a = "nonzero"
    /\ \E k \in LogIdx : log[k].e = "hook" /\ log[k].i = 1 /\ log[k].mode = "dry"
    /\ \E k \in LogIdx : log[k].e = "run" /\ log[k].i = 1 /\ log[k].a = "dry"
    /\ M.Items[1].Verify # ""
    /\ \E k \in LogIdx : log[k].e = "isapplied" /\ log[k].i = 2 /\ log[k].ok
    /\ ~Has("run", 2)

(***************************************************************************)
(* C38.  A step in which Record returned an error for a path leaves the    *)
(* snapshot as it was: the path is in neither saved nor created, and the   *)
(* entries recorded before are unchanged.                                  *)
(***************************************************************************)
FailedRecordLeavesSnapshot ==
    \A k \in (Len(log) + 1)..Len(log') :
        (log'[k].e = "record" /\ ~log'[k].ok)
        => /\ snap' = snap
           /\ log'[k].p \notin SavedKeys(snap') \cup CreatedSet(snap')

C38_FailedRecordLeavesSnapshot == [][FailedRecordLeavesSnapshot]_vars

\* the first item's destination was recorded, then Record failed for the
\* destination of the second
C38_Witness ==
    /\ Len(snap.saved) + Len(snap.created) = 1
    /\ \E k \in LogIdx : log[k].e = "record" /\ log[k].i = 1 /\ log[k].ok
    /\ \E k \in LogIdx :
          /\ log[k].e = "record" /\ log[k].i = 2 /\ ~log[k].ok
          /\ log[k].p \notin SavedKeys(snap) \cup CreatedSet(snap)

(***************************************************************************)
(* C36, under SpecNest.  Whatever has been recorded and changed so far,    *)
(* a Restore made now leaves the same file system in whichever order it    *)
(* writes the saved entries back, a file recorded before the directory     *)
(* around it included.                                                     *)
(***************************************************************************)
C36_RestoreOrderIndependent ==
    pc \in {"s_record", "s_mutate"}
    => \A o1, o2 \in Orders(Len(snap.saved)) :
          Restore(snap, fs, o1, {}).fs = Restore(snap, fs, o2, {}).fs

(***************************************************************************)
(* C37, under SpecSnap.  A Restore step changes nothing outside the        *)
(* recorded paths and the trees below them: the repo-side source a         *)
(* recorded destination was linked to, in particular, is left as it was.   *)
(***************************************************************************)
RestoreStaysInside ==
    (pc # "s_restored" /\ pc' = "s_restored")
    => \A q \in Paths :
          (\A p \in SavedKeys(snap) \cup CreatedSet(snap) : ~IsPrefix(p, q))
          => fs'[q] = fs[q]

C37_RestoreTouchesRecordedPathsOnly == [][RestoreStaysInside]_vars

(***************************************************************************)
(* C39, under SpecVerifyAll.  VerifyAll hands to VerifyModule every module *)
(* whose tags match, in declared order and each once, and no module whose  *)
(* tags do not match; a module that did not pass does not stop the loop;   *)
(* the allPassed it returns is false exactly when some VerifyModule call   *)
(* returned false, that is when some verify command failed.                *)
(***************************************************************************)
VerifiedModule(i) == \E k \in LogIdx : log[k].e = "module" /\ log[k].i = i

ModuleReturned(i) == \E k \in LogIdx : log[k].e = "module_end" /\ log[k].i = i

LastFetch == log[Len(log)]

C31_FetchVerifiesChecksum ==
    log # <<>>
    => /\ LastFetch.had # NoEntry
          => /\ LastFetch.from = (IF LastFetch.noCache \/ ~LastFetch.cached THEN "network"
                                  ELSE "cache")
             /\ result.err = NoErr
                => /\ Sum256(LastFetch.read) = LastFetch.had.SHA256
                   /\ result.mod = [Name |-> LastFetch.read]
             /\ (LastFetch.read # "" /\ Sum256(LastFetch.read) # LastFetch.had.SHA256)
                => /\ result = [mod |-> NoRemoteModule, err |-> Err("checksum mismatch")]
                   /\ lock[LastFetch.ref] = LastFetch.had
       /\ (LastFetch.had = NoEntry /\ result.err = NoErr)
          => /\ LastFetch.from = "network"
             /\ lock[LastFetch.ref].SHA256 = Sum256(LastFetch.read)
             /\ result.mod = [Name |-> LastFetch.read]

\* a first Fetch of a reference without an entry recorded its checksum; the
\* second, with noCache, got other data from the network, returned the
\* mismatch error and left the entry as the first had made it
C31_Witness ==
    /\ Len(log) = 2
    /\ log[1].had = NoEntry /\ log[1].ok /\ log[1].ref = log[2].ref
    /\ log[2].had.SHA256 = Sum256(log[1].read)
    /\ log[2].noCache /\ log[2].from = "network"
    /\ log[2].read # "" /\ log[2].read # log[1].read
    /\ result.err = Err("checksum mismatch")
    /\ lock[log[2].ref] = log[2].had

====
